---- MODULE Spec2Model ----
(***************************************************************************)
(* A model of the darkseek backend: the streaming response orchestrator    *)
(* (core/search_manager.py), the response cache (core/caching.py), the     *)
(* query utilities (core/utils.py), the two-provider search aggregator     *)
(* (api/search2_api.py) and the model streaming client (api/llm_api.py).   *)
(*                                                                         *)
(* Strings that the code inspects character by character (queries) are     *)
(* sequences of one-character strings.  The Redis store is a function      *)
(* from keys to values with an absolute expiry time; the transcript table  *)
(* is a sequence of rows.  Pure functions of the code are operators; the   *)
(* orchestrator and the persistence task are processes with a program      *)
(* counter.                                                                *)
(***************************************************************************)
EXTENDS Integers, Sequences, FiniteSets, TLC

(***************************************************************************)
(* Bounds of the model.                                                    *)
(***************************************************************************)
MaxRequests == 2      \* requests issued in one behaviour
MaxResults == 2       \* longest result list a provider returns
MaxLimit == 2         \* largest num_limit given to combinedsearch
MaxTokens == 2         \* most lines a model stream delivers
MaxLen == 2            \* longest raw query given to the cache
MaxTime == 3600       \* the clock stops here
TickStep == 1800      \* seconds that pass in one clock step
MaxClients == 3       \* concurrent requests in the turn-counter specification
MaxSocketTime == 120  \* seconds a socket connection is followed
SocketStep == 10      \* seconds that pass in one step of the socket's clock
MaxReceived == 2      \* messages a socket connection receives
MaxChunks == 2        \* events the requests of a socket connection yield
MaxInbound == 2       \* messages that clients publish to the broker
MaxEnqueued == 3      \* queries put on the query queue
MaxSaves == 12        \* save tasks created behind the semaphore
MaxQueryLen == 4      \* longest text given to sanitize_query on its own

(***************************************************************************)
(* Configuration (core/config.py); both are read from the environment.     *)
(***************************************************************************)
MAX_CHATS == 1
MAX_QUERY == 2
CACHE_TTL == 3600
CHAT_COUNT_TTL == 3600

None == "None"

(***************************************************************************)
(* core/utils.py                                                           *)
(***************************************************************************)
Chars == {"a", "A", " ", "\t"}

IsSpace(c) == c \in {" ", "\t"}

Lower(c) == IF c = "A" THEN "a" ELSE c

RECURSIVE LStrip(_)
LStrip(s) == IF s # <<>> /\ IsSpace(Head(s)) THEN LStrip(Tail(s)) ELSE s

RECURSIVE RStrip(_)
RStrip(s) ==
    IF s # <<>> /\ IsSpace(s[Len(s)]) THEN RStrip(SubSeq(s, 1, Len(s) - 1)) ELSE s

\* a strip that leaves the trailing whitespace
Strip_LeftOnly(s) == LStrip(s)

Strip(s) == RStrip(LStrip(s))

LowerStr(s) == [i \in 1..Len(s) |-> Lower(s[i])]

\* re.sub(r'\s+', ' ', s): every maximal run of whitespace becomes one space
RECURSIVE CollapseSpaces(_)
CollapseSpaces(s) ==
    IF s = <<>> THEN <<>>
    ELSE IF IsSpace(Head(s))
         THEN <<" ">> \o CollapseSpaces(LStrip(s))
         ELSE <<Head(s)>> \o CollapseSpaces(Tail(s))

sanitize_query(query) == CollapseSpaces(LowerStr(Strip(query)))

\* hashlib.md5(query.encode('utf-8')).hexdigest(): md5 is taken to be
\* collision free, so the digest is represented by the text it digests
generate_query_hash(query) == <<"md5", query>>

\* Optional[str]: None, or a text
NoText == [is_none |-> TRUE]
Text(q) == [is_none |-> FALSE, value |-> q]
Falsy(opt) == opt.is_none \/ opt.value = <<>>

validate_query(query) ==
    LET q == sanitize_query(query)
    IN  IF q = <<>> THEN NoText ELSE Text(q)

(***************************************************************************)
(* api/search2_api.py: the providers                                       *)
(*                                                                         *)
(* A provider's HTTP exchange is an input: the answer is "ok" with a       *)
(* payload, an HTTP error (httpx.HTTPError: connection failure or non-2xx  *)
(* status), or a payload the list comprehension cannot read.               *)
(***************************************************************************)
Links == {"l1", "l2"}

GItem(l) == [title |-> "G", link |-> l, snippet |-> "gs"]
GBadItem == [title |-> "G"]                 \* an item without "link"
DTopic(l) == [Text |-> "D", FirstURL |-> l]
DGroup == [Name |-> "grp"]                  \* a topic group: no Text, no FirstURL

SeqsUpTo(S, n) == UNION {[1..k -> S] : k \in 0..n}

GoogleItems == {GItem(l) : l \in Links} \cup {GBadItem}
DdgTopics == {DTopic(l) : l \in Links} \cup {DGroup}

GoogleResponses ==
    {[status |-> "ok", items |-> it] : it \in SeqsUpTo(GoogleItems, MaxResults)}
        \cup {[status |-> "http_error", items |-> <<>>]}
DdgResponses ==
    {[status |-> "ok", items |-> it] : it \in SeqsUpTo(DdgTopics, MaxResults)}
        \cup {[status |-> "http_error", items |-> <<>>]}

\* what asyncio.gather(..., return_exceptions=True) hands back for a provider
ListOf(rs) == [kind |-> "list", results |-> rs]
ExceptionOf(e) == [kind |-> "exception", results |-> <<>>, exc |-> e]

\* [... for result in topics if 'Text' in result and 'FirstURL' in result]
RECURSIVE TopicsWithTextAndUrl(_)
TopicsWithTextAndUrl(s) ==
    IF s = <<>> THEN <<>>
    ELSE IF {"Text", "FirstURL"} \subseteq DOMAIN Head(s)
         THEN <<Head(s)>> \o TopicsWithTextAndUrl(Tail(s))
         ELSE TopicsWithTextAndUrl(Tail(s))

\* httpx.HTTPError is caught inside the body and turned into []; so the
\* tenacity decorator never sees an exception it retries.  A KeyError of the
\* comprehension is not caught and is not retried.
google_search(resp) ==
    IF resp.status = "http_error" THEN ListOf(<<>>)
    ELSE IF \E i \in 1..Len(resp.items) :
                {"title", "link", "snippet"} \ DOMAIN resp.items[i] # {}
         THEN ExceptionOf("KeyError")
         ELSE ListOf([i \in 1..Len(resp.items) |->
                        [title |-> resp.items[i].title,
                         link |-> resp.items[i].link,
                         snippet |-> resp.items[i].snippet]])

duckduckgo_search(resp) ==
    IF resp.status = "http_error" THEN ListOf(<<>>)
    ELSE LET kept == TopicsWithTextAndUrl(resp.items)
         IN  ListOf([i \in 1..Len(kept) |->
                        [title |-> kept[i].Text,
                         link |-> kept[i].FirstURL,
                         snippet |-> kept[i].Text]])

(***************************************************************************)
(* api/search2_api.py: combinedsearch and search.  The generator's output  *)
(* is the sequence of events it yields.                                    *)
(***************************************************************************)
SearchResultsEvent(result) == [type |-> "search_results", results |-> <<result>>]

InvalidQueryEvent ==
    [type |-> "error", content |-> "Invalid query. Please provide a valid search term."]

\* YieldLoop without the seen_links test
RECURSIVE YieldLoop_NoDedup(_, _, _)
YieldLoop_NoDedup(results, st, num_limit) ==
    IF results = <<>> \/ st.returned THEN st
    ELSE LET result == Head(results)
             seen == st.seen_links \cup {result.link}
         IN  YieldLoop_NoDedup(Tail(results),
                               [seen_links |-> seen,
                                out |-> Append(st.out, SearchResultsEvent(result)),
                                returned |-> Cardinality(seen) >= num_limit],
                               num_limit)

\* one "for result in ...: if result['link'] not in seen_links: ..." loop;
\* st.returned records that the generator has executed its return
RECURSIVE YieldLoop(_, _, _)
YieldLoop(results, st, num_limit) ==
    IF results = <<>> \/ st.returned THEN st
    ELSE LET result == Head(results)
         IN  IF result.link \notin st.seen_links
             THEN LET seen == st.seen_links \cup {result.link}
                  IN  YieldLoop(Tail(results),
                                [seen_links |-> seen,
                                 out |-> Append(st.out, SearchResultsEvent(result)),
                                 returned |-> Cardinality(seen) >= num_limit],
                                num_limit)
             ELSE YieldLoop(Tail(results), st, num_limit)

\* combinedsearch giving up on the second provider when the first one failed
combinedsearch_FailFast(query, gresp, dresp, num_limit) ==
    IF Falsy(validate_query(query)) THEN <<InvalidQueryEvent>>
    ELSE LET google_results == google_search(gresp)
             duckduckgo_results == duckduckgo_search(dresp)
             s0 == [seen_links |-> {}, out |-> <<>>, returned |-> FALSE]
         IN  IF google_results.kind # "list" \/ gresp.status # "ok" THEN <<>>
             ELSE IF duckduckgo_results.kind # "list" \/ dresp.status # "ok" THEN <<>>
             ELSE YieldLoop(duckduckgo_results.results,
                            YieldLoop(google_results.results, s0, num_limit),
                            num_limit).out

combinedsearch(query, gresp, dresp, num_limit) ==
    IF Falsy(validate_query(query)) THEN <<InvalidQueryEvent>>
    ELSE LET google_results == google_search(gresp)
             duckduckgo_results == duckduckgo_search(dresp)
             s0 == [seen_links |-> {}, out |-> <<>>, returned |-> FALSE]
             s1 == IF google_results.kind = "list"
                   THEN YieldLoop(google_results.results, s0, num_limit) ELSE s0
             s2 == IF ~s1.returned /\ duckduckgo_results.kind = "list"
                   THEN YieldLoop(duckduckgo_results.results, s1, num_limit) ELSE s1
         IN  s2.out

\* combinedsearch raises nothing (gather keeps the providers' exceptions as
\* values), so the except branch of search adds no event
search(query, gresp, dresp) == combinedsearch(query, gresp, dresp, MAX_QUERY)

(***************************************************************************)
(* api/llm_api.py                                                          *)
(***************************************************************************)
DEFAULT_LLM == "gemma_flash_2.0"
LLM_CONFIGS == {"gemma_flash_2.0", "deepseek_r1_llm", "qwen_2.5_max"}
LlmNames == {None, "gemma_flash_2.0", "no_such_llm"}

RETRIES == 3
\* llm_api.py imports httpx, json, logging and os, and not asyncio: the
\* "await asyncio.sleep(...)" of _retry_request raises NameError
AsyncioImported == FALSE

Tokens == {"t1", "t2"}
TokenLine(t) == [kind |-> "token", text |-> t]
ErrorLine == [kind |-> "error", error |-> "overloaded"]
BlankLine == [kind |-> "blank"]
GarbageLine == [kind |-> "garbage"]       \* json.loads raises JSONDecodeError
Lines == {TokenLine(t) : t \in Tokens} \cup {ErrorLine, BlankLine, GarbageLine}

PostOutcomes == {"ok", "request_error", "status_error"}

\* the inputs of one call of stream_query_llm that the caller does not give:
\* the configuration found, the outcome of each client.post, the lines that
\* response.aiter_lines() delivers and whether it then raises
StreamEnvs ==
    [tgi_url : BOOLEAN, hf_token : BOOLEAN, post : [1..RETRIES -> PostOutcomes],
     lines : SeqsUpTo(Lines, MaxTokens), broken : BOOLEAN]

\* an error record that is always typed as a warning
_handle_error_AsWarning(error_type, message, status_code) ==
    [type |-> "warning", message |-> message, status_code |-> status_code]

_handle_error(error_type, message, status_code) ==
    [type |-> error_type, message |-> message, status_code |-> status_code]

TokenEvent(t) == [type |-> "token", text |-> t, metadata |-> "{}"]
ReplayEvent(t) == [type |-> "token", text |-> t]
WarningEvent == _handle_error("warning", "Streaming failed, providing partial results.", "N/A")

\* a _get_llm that accepts every name
UnsupportedLlm_Never(llm_name) == FALSE

\* True when _get_llm(llm_name or default_llm) raises ValueError
UnsupportedLlm(llm_name) ==
    (IF llm_name = None THEN DEFAULT_LLM ELSE llm_name) \notin LLM_CONFIGS

\* for attempt in range(retries): ...; the result is the response or the
\* exception raised, with the number of client.post calls made
RECURSIVE _retry_request(_, _)
_retry_request(post, attempt) ==
    IF attempt > RETRIES
    THEN [raised |-> "Exception", posts |-> RETRIES]
    ELSE IF post[attempt] = "ok" THEN [raised |-> None, posts |-> attempt]
    ELSE IF post[attempt] = "status_error"
         THEN [raised |-> "HTTPStatusError", posts |-> attempt]
    ELSE IF AsyncioImported THEN _retry_request(post, attempt + 1)
    ELSE [raised |-> "NameError", posts |-> attempt]

\* async for line in response.aiter_lines(): the events yielded for the
\* lines, and partial_results
RECURSIVE ReadLines(_, _)
ReadLines(lines, st) ==
    IF lines = <<>> THEN st
    ELSE LET line == Head(lines)
         IN  ReadLines(Tail(lines),
               IF line.kind = "token"
               THEN [events |-> Append(st.events, TokenEvent(line.text)),
                     partial_results |-> Append(st.partial_results, line.text)]
               ELSE IF line.kind = "error"
               THEN [events |-> Append(st.events, _handle_error("error", line.error, "N/A")),
                     partial_results |-> st.partial_results]
               ELSE st)

\* the partial results discarded instead of replayed
Replay_Dropped(partial_results) == <<>>

Replay(partial_results) ==
    [i \in 1..Len(partial_results) |-> ReplayEvent(partial_results[i])]

\* The generator's result: the events it yields, the exception that leaves it
\* (None when it ends normally), and the client.post calls it made.
stream_query_llm(query, search_results, llm_name, env) ==
    IF UnsupportedLlm(llm_name)
    THEN [events |-> <<>>, raised |-> "ValueError", posts |-> 0]
    ELSE IF ~env.tgi_url
    THEN [events |-> <<_handle_error("error", "TGI server URL not configured", "N/A")>>,
          raised |-> None, posts |-> 0]
    ELSE IF ~env.hf_token
    THEN [events |-> <<_handle_error("error", "API token is missing.", "N/A")>>,
          raised |-> None, posts |-> 0]
    ELSE LET response == _retry_request(env.post, 1)
         IN  IF response.raised = "HTTPStatusError"
             THEN [events |-> <<_handle_error("error", "Server returned", "5xx")>>,
                   raised |-> None, posts |-> response.posts]
             ELSE IF response.raised # None
             \* except Exception as e: getattr(e.response, ...) - the exception
             \* has no attribute "response"
             THEN [events |-> <<>>, raised |-> "AttributeError", posts |-> response.posts]
             ELSE LET st == ReadLines(env.lines,
                                      [events |-> <<>>, partial_results |-> <<>>])
                  IN  IF env.broken
                      THEN [events |-> st.events \o <<WarningEvent>>
                                          \o Replay(st.partial_results),
                            raised |-> None, posts |-> response.posts]
                      ELSE [events |-> st.events, raised |-> None,
                            posts |-> response.posts]

ErrorPlaceholder == "An error occurred while processing your request."

\* ainvoke_ok: whether llm_chain.ainvoke returns
query_llm(query, search_results, llm_name, ainvoke_ok) ==
    IF UnsupportedLlm(llm_name) THEN [text |-> None, raised |-> "ValueError"]
    ELSE IF ainvoke_ok THEN [text |-> "answer", raised |-> None]
    ELSE [text |-> ErrorPlaceholder, raised |-> None]

(***************************************************************************)
(* The state                                                               *)
(***************************************************************************)
Sessions == {"s1", "s2"}
Slots == {1}                    \* requests are served one at a time
Queries == {<<"a">>, <<" ">>}     \* the texts requests carry: one valid, one blank

VARIABLES
    now,            \* the clock, in seconds
    chat_counts,    \* Redis: chat_count:<session_id> -> [count, expire_at]
    cache,          \* Redis: query hash -> [value, expire_at]
    rows,           \* the user_queries table
    tasks,          \* the save_query_to_db tasks made by asyncio.create_task
    issued,         \* requests started so far
    pc,             \* where each request is in get_streaming_response
    args,           \* the arguments of each request
    loc,            \* the local variables of each request
    out,            \* the events each request has yielded
    ops,            \* the calls each request has made on its collaborators
    fin,            \* the input of a function call under test
    fout,           \* its result
    conn,           \* the socket connection of main.py's websocket_endpoint
    broker,         \* the broker server of mqttmain.py
    gate,           \* the save tasks behind the semaphore of api/search_api.py
    queue           \* the Redis list "query_queue" and the calls made on it

storeVars == <<now, chat_counts, cache, rows, tasks>>
reqVars == <<issued, pc, args, loc, out, ops>>
fnVars == <<fin, fout, conn, broker, gate, queue>>
vars == <<now, chat_counts, cache, rows, tasks, issued, pc, args, loc, out, ops, fin, fout,
          conn, broker, gate, queue>>

NoArgs == [query |-> <<>>, session_id |-> None, search_enabled |-> FALSE, llm_name |-> None]
NoEntry == [response |-> None, llm_used |-> None, search_results |-> <<>>, absent |-> TRUE]
\* prompt_results is the list given to stream_query_llm
NoLocals == [chat_count |-> 0, cached_response |-> NoEntry, search_results |-> <<>>,
             full_response |-> None, prompt_results |-> <<>>]

\* json.dumps and json.loads, for the values the code stores
json_dumps(v) == [json |-> v]
json_loads(s) == s.json

(***************************************************************************)
(* core/caching.py on the Redis store.  A key whose time to live has       *)
(* passed is absent.                                                       *)
(***************************************************************************)
Live(store) == {k \in DOMAIN store : now < store[k].expire_at}

\* a lookup that never finds the entry
get_cached_response_Miss(query) == NoEntry

get_cached_response(query) ==
    LET query_hash == generate_query_hash(query)
    IN  IF query_hash \in Live(cache) THEN json_loads(cache[query_hash].value) ELSE NoEntry

Put(store, k, v) == [x \in DOMAIN store \cup {k} |-> IF x = k THEN v ELSE store[x]]

cache_response(query, response_data, llm_used, search_results) ==
    LET query_hash == generate_query_hash(query)
        data_to_cache == [response |-> response_data, llm_used |-> llm_used,
                          search_results |-> search_results]
    IN  Put(cache, query_hash,
            [value |-> json_dumps(data_to_cache), expire_at |-> now + CACHE_TTL])

\* an increment that leaves a counter it finds unchanged
Incr_Stuck(session_id) ==
    IF session_id \in Live(chat_counts) THEN chat_counts[session_id].count ELSE 1

\* redis_client.incr(key): a missing key counts as 0, and keeps no expiry
Incr(session_id) ==
    IF session_id \in Live(chat_counts) THEN chat_counts[session_id].count + 1 ELSE 1

(***************************************************************************)
(* core/search_manager.py: get_streaming_response                          *)
(***************************************************************************)
ErrorEvent(message) == [error |-> message]
LlmResponseEvent(chunk) == [type |-> "llm_response", content |-> chunk]
FullResponseEvent(c) ==
    [type |-> "full_response", content |-> c.response,
     search_results |-> c.search_results, llm_used |-> c.llm_used]

\* the model names requests carry: the default, and one not configured
OrchLlmNames == {None, "no_such_llm"}

\* the environments the orchestrator's collaborators are run in
OrchSearchEnvs ==
    {[g |-> [status |-> "ok", items |-> <<GItem("l1")>>],
      d |-> [status |-> "ok", items |-> <<DTopic("l1"), DTopic("l2")>>]],
     [g |-> [status |-> "http_error", items |-> <<>>],
      d |-> [status |-> "ok", items |-> <<DTopic("l2")>>]]}

AllOk == [i \in 1..RETRIES |-> "ok"]
OrchStreamEnvs ==
    {[tgi_url |-> TRUE, hf_token |-> TRUE, post |-> AllOk,
      lines |-> <<TokenLine("t1"), TokenLine("t2")>>, broken |-> FALSE],
     [tgi_url |-> TRUE, hf_token |-> TRUE, post |-> AllOk,
      lines |-> <<TokenLine("t1")>>, broken |-> TRUE],
     [tgi_url |-> TRUE, hf_token |-> FALSE, post |-> AllOk,
      lines |-> <<>>, broken |-> FALSE]}

\* a forwarding loop that sends the chunks last first
Wrap_Reversed(events) ==
    [i \in 1..Len(events) |-> LlmResponseEvent(events[Len(events) + 1 - i])]

Wrap(events) == [i \in 1..Len(events) |-> LlmResponseEvent(events[i])]

\* search_results.extend(item.get('results', [])) for the search_results items
RECURSIVE CollectResults(_)
CollectResults(items) ==
    IF items = <<>> THEN <<>>
    ELSE IF Head(items).type = "search_results"
         THEN Head(items).results \o CollectResults(Tail(items))
         ELSE CollectResults(Tail(items))

Task(query, llm_response, search_results, llm_name) ==
    [pc |-> "check", query |-> query, llm_response |-> llm_response,
     search_results |-> search_results, llm_name |-> llm_name]

\* the new events put in front of those already sent
Emit_Front(sent, events) == events \o sent

\* yield: the events follow those the request has already sent
Emit(sent, events) == sent \o events

\* a request that goes on to its second search after an error event
ReturnAfterError_GoesOn == "search_again"

\* lines 33 and 61: the return that follows the yield of an error event
ReturnAfterError == "done"

\* the limit test passing one turn too many
ChatLimitReached_OneLate(chat_count) == chat_count > MAX_CHATS + 1

\* line 31: if chat_count > MAX_CHATS
ChatLimitReached(chat_count) == chat_count > MAX_CHATS

\* lines 27-33: the turn counter and the limit
RateCheck(r) ==
    /\ pc[r] = "idle"
    /\ issued < MaxRequests
    /\ \E query \in Queries, session_id \in Sessions,
          search_enabled \in BOOLEAN, llm_name \in OrchLlmNames :
          LET chat_count == Incr(session_id)
          IN  /\ args' = [args EXCEPT ![r] =
                            [query |-> query, session_id |-> session_id,
                             search_enabled |-> search_enabled, llm_name |-> llm_name]]
              /\ chat_counts' = Put(chat_counts, session_id,
                                    [count |-> chat_count,
                                     expire_at |-> now + CHAT_COUNT_TTL])
              /\ loc' = [loc EXCEPT ![r] = [NoLocals EXCEPT !.chat_count = chat_count]]
              /\ ops' = [ops EXCEPT ![r] = <<"incr", "expire">>]
              /\ IF ChatLimitReached(chat_count)
                 THEN /\ out' = [out EXCEPT ![r] =
                                   <<ErrorEvent("Chat limit reached for this session.")>>]
                      /\ pc' = [pc EXCEPT ![r] = ReturnAfterError]
                 ELSE /\ out' = [out EXCEPT ![r] = <<>>]
                      /\ pc' = [pc EXCEPT ![r] = "cache_check"]
    /\ issued' = issued + 1
    /\ UNCHANGED <<now, cache, rows, tasks, fnVars>>

\* lines 35-38: the cache lookup
CacheCheck(r) ==
    /\ pc[r] = "cache_check"
    /\ LET cached_response == get_cached_response(args[r].query)
       IN  /\ loc' = [loc EXCEPT ![r].cached_response = cached_response]
           /\ ops' = [ops EXCEPT ![r] = Append(@, "cache_get")]
           /\ IF "absent" \notin DOMAIN cached_response
              THEN /\ out' = [out EXCEPT ![r] = Append(@, FullResponseEvent(cached_response))]
                   /\ pc' = [pc EXCEPT ![r] = "done"]
              ELSE /\ out' = out
                   /\ pc' = [pc EXCEPT ![r] =
                               IF args[r].search_enabled THEN "search" ELSE "stream"]
    /\ UNCHANGED <<storeVars, issued, args, fnVars>>

\* lines 40-42: the search events are forwarded
ForwardSearch(r) ==
    /\ pc[r] = "search"
    /\ \E env \in OrchSearchEnvs :
          out' = [out EXCEPT ![r] = Emit(@, search(args[r].query, env.g, env.d))]
    /\ ops' = [ops EXCEPT ![r] = Append(@, "search")]
    /\ pc' = [pc EXCEPT ![r] = "stream"]
    /\ UNCHANGED <<storeVars, issued, args, loc, fnVars>>

\* line 46: the result list in the call stream_query_llm(query, [], llm_name)
PromptResults(r) == <<>>

\* lines 44-47 and 58-61: the model stream, given an empty result list
StreamLLM(r) ==
    /\ pc[r] = "stream"
    /\ \E env \in OrchStreamEnvs :
          LET res == stream_query_llm(args[r].query, PromptResults(r), args[r].llm_name, env)
          IN  IF res.raised # None
              THEN /\ out' = [out EXCEPT ![r] =
                                Emit(Emit(@, Wrap(res.events)),
                                     <<ErrorEvent("Error querying LLM")>>)]
                   /\ pc' = [pc EXCEPT ![r] = ReturnAfterError]
              ELSE /\ out' = [out EXCEPT ![r] = Emit(@, Wrap(res.events))]
                   /\ pc' = [pc EXCEPT ![r] = "search_again"]
    /\ loc' = [loc EXCEPT ![r].prompt_results = PromptResults(r)]
    /\ ops' = [ops EXCEPT ![r] = Append(@, "stream_query_llm")]
    /\ UNCHANGED <<storeVars, issued, args, fnVars>>

\* lines 49-52: the search is run again, for the cache entry
SearchAgain(r) ==
    /\ pc[r] = "search_again"
    /\ \E env \in OrchSearchEnvs :
          loc' = [loc EXCEPT ![r].search_results =
                    CollectResults(search(args[r].query, env.g, env.d))]
    /\ ops' = [ops EXCEPT ![r] = Append(@, "search")]
    /\ pc' = [pc EXCEPT ![r] = "query_llm"]
    /\ UNCHANGED <<storeVars, issued, args, out, fnVars>>

\* lines 54-61: the second model call, the cache write and the save task
QueryAndStore(r) ==
    /\ pc[r] = "query_llm"
    /\ \E ainvoke_ok \in BOOLEAN :
          LET res == query_llm(args[r].query, loc[r].search_results,
                               args[r].llm_name, ainvoke_ok)
          IN  IF res.raised # None
              THEN /\ out' = [out EXCEPT ![r] = Emit(@, <<ErrorEvent("Error querying LLM")>>)]
                   /\ ops' = [ops EXCEPT ![r] = Append(@, "query_llm")]
                   /\ pc' = [pc EXCEPT ![r] = ReturnAfterError]
                   /\ UNCHANGED <<cache, tasks, loc, queue>>
              ELSE /\ cache' = cache_response(args[r].query, res.text, args[r].llm_name,
                                              loc[r].search_results)
                   /\ tasks' = Append(tasks, Task(args[r].query, res.text,
                                                  loc[r].search_results, args[r].llm_name))
                   /\ loc' = [loc EXCEPT ![r].full_response = res.text]
                   /\ ops' = [ops EXCEPT ![r] = @ \o <<"query_llm", "cache_set", "create_task">>]
                   /\ out' = out
                   /\ pc' = [pc EXCEPT ![r] = "done"]
    /\ UNCHANGED <<now, chat_counts, rows, issued, args, fnVars>>

\* The generator is exhausted, or an exception has left it: its caller goes
\* on, and the record of the request is dropped.  This happens in the event-loop step that ended the
\* generator, so no task and no clock step comes in between.
Return(r) ==
    /\ pc[r] \in {"done", "raised"}
    /\ pc' = [pc EXCEPT ![r] = "idle"]
    /\ args' = [args EXCEPT ![r] = NoArgs]
    /\ loc' = [loc EXCEPT ![r] = NoLocals]
    /\ out' = [out EXCEPT ![r] = <<>>]
    /\ ops' = [ops EXCEPT ![r] = <<>>]
    /\ UNCHANGED <<storeVars, issued, fnVars>>

Returning == \E r \in Slots : pc[r] \in {"done", "raised"}

(***************************************************************************)
(* core/search_manager.py: save_query_to_db, one task per create_task      *)
(***************************************************************************)
UserQuery(t) ==
    [query_text |-> t.query, response_text |-> t.llm_response,
     search_results |-> json_dumps(t.search_results), llm_used |-> t.llm_name]

\* a task that has ended is forgotten
Remove(s, i) == SubSeq(s, 1, i - 1) \o SubSeq(s, i + 1, Len(s))

\* an existence check that never finds a row
ExistingQuery_Never(query) == FALSE

\* db.query(UserQuery).filter(UserQuery.query_text == query).first()
ExistingQuery(query) == \E i \in 1..Len(rows) : rows[i].query_text = query

\* lines 88-91: the existence check
SaveCheck(t) ==
    /\ ~Returning
    /\ t \in 1..Len(tasks)
    /\ tasks[t].pc = "check"
    /\ tasks' = IF ExistingQuery(tasks[t].query)
                THEN Remove(tasks, t)
                ELSE [tasks EXCEPT ![t].pc = "insert"]
    /\ UNCHANGED <<now, chat_counts, cache, rows, reqVars, fnVars>>

\* lines 93-99: add, commit, refresh
SaveInsert(t) ==
    /\ ~Returning
    /\ t \in 1..Len(tasks)
    /\ tasks[t].pc = "insert"
    /\ rows' = Append(rows, UserQuery(tasks[t]))
    /\ tasks' = Remove(tasks, t)
    /\ UNCHANGED <<now, chat_counts, cache, reqVars, fnVars>>

(***************************************************************************)
(* Time: Redis drops the keys whose time to live has passed                *)
(***************************************************************************)
Restrict(store, keys) == [k \in keys |-> store[k]]

Tick ==
    /\ ~Returning
    /\ now < MaxTime
    /\ now' = now + TickStep
    /\ chat_counts' = Restrict(chat_counts,
                               {k \in DOMAIN chat_counts : now' < chat_counts[k].expire_at})
    /\ cache' = Restrict(cache, {k \in DOMAIN cache : now' < cache[k].expire_at})
    /\ UNCHANGED <<rows, tasks, reqVars, fnVars>>

(***************************************************************************)
(* The server: requests, save tasks and the clock                          *)
(***************************************************************************)
StoreInit ==
    /\ now = 0
    /\ chat_counts = <<>>
    /\ cache = <<>>
    /\ rows = <<>>

ReqInit ==
    /\ issued = 0
    /\ pc = [r \in Slots |-> "idle"]
    /\ args = [r \in Slots |-> NoArgs]
    /\ loc = [r \in Slots |-> NoLocals]
    /\ out = [r \in Slots |-> <<>>]
    /\ ops = [r \in Slots |-> <<>>]

NotCalled == [called |-> "none"]

\* no socket connection
NoConn == [loop |-> "none"]

\* no broker server
NoBroker == [state |-> "none"]

\* no save task
NoGate == [value |-> 0]

\* no call on the query queue
NoQueue == [list |-> <<>>]

Init ==
    /\ StoreInit
    /\ tasks = <<>>
    /\ ReqInit
    /\ conn = NoConn
    /\ broker = NoBroker
    /\ gate = NoGate
    /\ queue = NoQueue
    /\ fin = [of |-> "none"]
    /\ fout = NotCalled

Next ==
    \/ \E r \in Slots : RateCheck(r)
    \/ \E r \in Slots : CacheCheck(r)
    \/ \E r \in Slots : ForwardSearch(r)
    \/ \E r \in Slots : StreamLLM(r)
    \/ \E r \in Slots : SearchAgain(r)
    \/ \E r \in Slots : QueryAndStore(r)
    \/ \E r \in Slots : Return(r)
    \/ \E t \in 1..Len(tasks) : SaveCheck(t)
    \/ \E t \in 1..Len(tasks) : SaveInsert(t)
    \/ Tick

Spec == Init /\ [][Next]_vars

(***************************************************************************)
(* The server with a Redis that can fail: a call of redis_client raises    *)
(* (redis.exceptions.ConnectionError), and the exception takes the way the *)
(* code gives it                                                           *)
(***************************************************************************)
\* line 28: incr raises, outside any try: the exception leaves the generator
RateCheckFails(r) ==
    /\ pc[r] = "idle"
    /\ issued < MaxRequests
    /\ \E query \in Queries, session_id \in Sessions,
          search_enabled \in BOOLEAN, llm_name \in OrchLlmNames :
          args' = [args EXCEPT ![r] =
                     [query |-> query, session_id |-> session_id,
                      search_enabled |-> search_enabled, llm_name |-> llm_name]]
    /\ ops' = [ops EXCEPT ![r] = <<"incr">>]
    /\ pc' = [pc EXCEPT ![r] = "raised"]
    /\ issued' = issued + 1
    /\ UNCHANGED <<storeVars, loc, out, fnVars>>

\* line 35: redis_client.get raises in get_cached_response, outside any try
CacheCheckFails(r) ==
    /\ pc[r] = "cache_check"
    /\ ops' = [ops EXCEPT ![r] = Append(@, "cache_get")]
    /\ pc' = [pc EXCEPT ![r] = "raised"]
    /\ UNCHANGED <<storeVars, issued, args, loc, out, fnVars>>

\* lines 54-61: redis_client.setex raises in cache_response, inside the try
CacheWriteFails(r) ==
    /\ pc[r] = "query_llm"
    /\ \E ainvoke_ok \in BOOLEAN :
          LET res == query_llm(args[r].query, loc[r].search_results,
                               args[r].llm_name, ainvoke_ok)
          IN  /\ res.raised = None
              /\ loc' = [loc EXCEPT ![r].full_response = res.text]
    /\ out' = [out EXCEPT ![r] = Emit(@, <<ErrorEvent("Error querying LLM")>>)]
    /\ ops' = [ops EXCEPT ![r] = @ \o <<"query_llm", "cache_set_failed">>]
    /\ pc' = [pc EXCEPT ![r] = ReturnAfterError]
    /\ UNCHANGED <<storeVars, issued, args, fnVars>>

\* line 88: db.query raises, outside the try: the exception ends the task,
\* which nobody awaits
SaveCheckFails(t) ==
    /\ ~Returning
    /\ t \in 1..Len(tasks)
    /\ tasks[t].pc = "check"
    /\ tasks' = Remove(tasks, t)
    /\ UNCHANGED <<now, chat_counts, cache, rows, reqVars, fnVars>>

\* a failed save that reports to the client of the request in slot 1
SaveInsertFails_Surfaced(t) ==
    /\ ~Returning
    /\ t \in 1..Len(tasks)
    /\ tasks[t].pc = "insert"
    /\ tasks' = Remove(tasks, t)
    /\ out' = [out EXCEPT ![1] = Emit(@, <<ErrorEvent("Error saving to DB")>>)]
    /\ UNCHANGED <<now, chat_counts, cache, rows, issued, pc, args, loc, ops, fnVars>>

\* lines 93-102: db.commit raises; the handler logs and rolls back
SaveInsertFails(t) ==
    /\ ~Returning
    /\ t \in 1..Len(tasks)
    /\ tasks[t].pc = "insert"
    /\ tasks' = Remove(tasks, t)
    /\ UNCHANGED <<now, chat_counts, cache, rows, reqVars, fnVars>>

NextFault ==
    \/ Next
    \/ \E r \in Slots : RateCheckFails(r)
    \/ \E r \in Slots : CacheCheckFails(r)
    \/ \E r \in Slots : CacheWriteFails(r)
    \/ \E t \in 1..Len(tasks) : SaveCheckFails(t)
    \/ \E t \in 1..Len(tasks) : SaveInsertFails(t)

SpecFault == Init /\ [][NextFault]_vars

(***************************************************************************)
(* The search aggregator on its own: combinedsearch and search applied to  *)
(* every pair of provider answers within the bounds                        *)
(***************************************************************************)
SearchInputs ==
    [query : {<<"a">>, <<" ">>}, g : GoogleResponses, d : DdgResponses,
     num_limit : 0..MaxLimit]

InitSearch ==
    /\ StoreInit
    /\ tasks = <<>>
    /\ ReqInit
    /\ conn = NoConn
    /\ broker = NoBroker
    /\ gate = NoGate
    /\ queue = NoQueue
    /\ fin \in SearchInputs
    /\ fout = NotCalled

CallCombinedSearch ==
    /\ fout = NotCalled
    /\ fout' = [called |-> "combinedsearch",
                events |-> combinedsearch(fin.query, fin.g, fin.d, fin.num_limit)]
    /\ UNCHANGED <<storeVars, reqVars, fin, conn, broker, gate, queue>>

CallSearch ==
    /\ fout = NotCalled
    /\ fout' = [called |-> "search", events |-> search(fin.query, fin.g, fin.d)]
    /\ UNCHANGED <<storeVars, reqVars, fin, conn, broker, gate, queue>>

NextSearch == CallCombinedSearch \/ CallSearch

SpecSearch == InitSearch /\ [][NextSearch]_vars

(***************************************************************************)
(* The model streaming client on its own                                   *)
(***************************************************************************)
InitLLM ==
    /\ StoreInit
    /\ tasks = <<>>
    /\ ReqInit
    /\ conn = NoConn
    /\ broker = NoBroker
    /\ gate = NoGate
    /\ queue = NoQueue
    /\ fin \in [llm_name : LlmNames, env : StreamEnvs]
    /\ fout = NotCalled

CallStreamQueryLLM ==
    /\ fout = NotCalled
    /\ fout' = [called |-> "stream_query_llm",
                res |-> stream_query_llm(<<"a">>, <<>>, fin.llm_name, fin.env)]
    /\ UNCHANGED <<storeVars, reqVars, fin, conn, broker, gate, queue>>

NextLLM == CallStreamQueryLLM

SpecLLM == InitLLM /\ [][NextLLM]_vars

(***************************************************************************)
(* The response cache on its own: cache_response with one raw query, then  *)
(* get_cached_response with another                                        *)
(***************************************************************************)
CacheInputs ==
    [q1 : SeqsUpTo(Chars, MaxLen), q2 : SeqsUpTo(Chars, MaxLen),
     response : {"r1", "r2"}]

InitCache ==
    /\ StoreInit
    /\ tasks = <<>>
    /\ ReqInit
    /\ conn = NoConn
    /\ broker = NoBroker
    /\ gate = NoGate
    /\ queue = NoQueue
    /\ fin \in CacheInputs
    /\ fout = NotCalled

CallCacheResponse ==
    /\ cache = <<>>
    /\ fout = NotCalled
    /\ cache' = cache_response(fin.q1, fin.response, None, <<GItem("l1")>>)
    /\ UNCHANGED <<now, chat_counts, rows, tasks, reqVars, fnVars>>

CallGetCachedResponse ==
    /\ fout = NotCalled
    /\ fout' = [called |-> "get_cached_response", entry |-> get_cached_response(fin.q2)]
    /\ UNCHANGED <<storeVars, reqVars, fin, conn, broker, gate, queue>>

NextCache == CallCacheResponse \/ CallGetCachedResponse

SpecCache == InitCache /\ [][NextCache]_vars

(***************************************************************************)
(* save_query_to_db called twice, the second call after the first ended    *)
(***************************************************************************)
SaveInputs ==
    [query : Queries, llm_response : {"r1", "r2"},
     search_results : {<<>>, <<GItem("l1")>>}, llm_name : OrchLlmNames]

InitSave ==
    /\ StoreInit
    /\ ReqInit
    /\ conn = NoConn
    /\ broker = NoBroker
    /\ gate = NoGate
    /\ queue = NoQueue
    /\ fin \in [first : SaveInputs, second : SaveInputs]
    /\ tasks = <<Task(fin.first.query, fin.first.llm_response,
                      fin.first.search_results, fin.first.llm_name),
                 Task(fin.second.query, fin.second.llm_response,
                      fin.second.search_results, fin.second.llm_name)>>
    /\ fout = NotCalled

NextSave == SaveCheck(1) \/ SaveInsert(1)

SpecSave == InitSave /\ [][NextSave]_vars

(***************************************************************************)
(* save_query_to_db run by two requests at once, each in its own instance  *)
(* of the server on the one database: a call's query and its commit are    *)
(* separate statements of the database, and the other call's may come      *)
(* between them                                                            *)
(***************************************************************************)
NextInstances ==
    \/ \E t \in 1..Len(tasks) : SaveCheck(t)
    \/ \E t \in 1..Len(tasks) : SaveInsert(t)

SpecInstances == InitSave /\ [][NextInstances]_vars

(***************************************************************************)
(* Properties of the search aggregator (SpecSearch)                        *)
(***************************************************************************)
\* the results a sequence of events carries, in order
RECURSIVE Emitted(_)
Emitted(events) ==
    IF events = <<>> THEN <<>>
    ELSE (IF "results" \in DOMAIN Head(events) THEN Head(events).results ELSE <<>>)
            \o Emitted(Tail(events))

LinksIn(rs) == {rs[i].link : i \in 1..Len(rs)}

\* the first occurrence of every link, in order
RECURSIVE FirstByLink(_, _)
FirstByLink(rs, seen) ==
    IF rs = <<>> THEN <<>>
    ELSE IF Head(rs).link \in seen THEN FirstByLink(Tail(rs), seen)
         ELSE <<Head(rs)>> \o FirstByLink(Tail(rs), seen \cup {Head(rs).link})

FirstN(rs, n) == SubSeq(rs, 1, IF Len(rs) < n THEN Len(rs) ELSE n)

NoErrorEvent(events) ==
    \A i \in 1..Len(events) :
        /\ "error" \notin DOMAIN events[i]
        /\ "type" \in DOMAIN events[i] => events[i].type # "error"

ProvidersAsked == ~Falsy(validate_query(fin.query))
GoogleList == google_search(fin.g)
DdgList == duckduckgo_search(fin.d)
GoogleFailed == fin.g.status # "ok" \/ GoogleList.kind # "list"
DdgFailed == fin.d.status # "ok" \/ DdgList.kind # "list"

\* C5: the results combinedsearch emits never repeat a link; a link that
\* both providers returned is emitted in Google's copy; and unless the cap
\* cut the stream short, every link a provider returned is emitted.
C5_EachLinkOnce ==
    (fout.called = "combinedsearch" /\ ProvidersAsked) =>
        LET rs == Emitted(fout.events)
            gl == IF GoogleList.kind = "list" THEN LinksIn(GoogleList.results) ELSE {}
            dl == IF DdgList.kind = "list" THEN LinksIn(DdgList.results) ELSE {}
        IN  /\ \A i, j \in 1..Len(rs) : rs[i].link = rs[j].link => i = j
            /\ \A i \in 1..Len(rs) :
                  rs[i].link \in gl \cap dl =>
                      \E k \in 1..Len(GoogleList.results) : GoogleList.results[k] = rs[i]
            /\ Len(rs) < fin.num_limit => LinksIn(rs) = gl \cup dl
            /\ Len(fout.events) = Len(rs)

\* both providers returned the link l1, Google twice, and it was emitted
C5_Witness ==
    /\ fout.called = "combinedsearch"
    /\ ProvidersAsked
    /\ GoogleList.kind = "list"
    /\ Len(GoogleList.results) = 2
    /\ GoogleList.results[1].link = "l1"
    /\ GoogleList.results[2].link = "l1"
    /\ "l1" \in LinksIn(DdgList.results)
    /\ fin.num_limit = 2
    /\ Len(Emitted(fout.events)) >= 1

\* C6: combinedsearch with num_limit = N yields at most N results, N >= 0.
C6_AtMostN ==
    fout.called = "combinedsearch" => Len(Emitted(fout.events)) <= fin.num_limit

\* C7: when one provider failed and the other answered, search emits exactly
\* the other provider's results (first copy of each link, at most MAX_QUERY
\* of them), one event per result and no error event.
C7_OneProviderDown ==
    (fout.called = "search" /\ ProvidersAsked) =>
        /\ (GoogleFailed /\ ~DdgFailed) =>
              /\ Emitted(fout.events) = FirstN(FirstByLink(DdgList.results, {}), MAX_QUERY)
              /\ NoErrorEvent(fout.events)
              /\ Len(fout.events) = Len(Emitted(fout.events))
              /\ DdgList.results # <<>> => fout.events # <<>>
        /\ (DdgFailed /\ ~GoogleFailed) =>
              /\ Emitted(fout.events) = FirstN(FirstByLink(GoogleList.results, {}), MAX_QUERY)
              /\ NoErrorEvent(fout.events)
              /\ Len(fout.events) = Len(Emitted(fout.events))
              /\ GoogleList.results # <<>> => fout.events # <<>>

\* Google failed, DuckDuckGo returned results, and search emitted them
C7_Witness ==
    /\ fout.called = "search"
    /\ ProvidersAsked
    /\ GoogleFailed
    /\ GoogleList.kind = "exception"
    /\ ~DdgFailed
    /\ Len(DdgList.results) = 2
    /\ Len(fout.events) >= 1

(***************************************************************************)
(* Properties of the model streaming client (SpecLLM)                      *)
(***************************************************************************)
RECURSIVE TokenTexts(_)
TokenTexts(lines) ==
    IF lines = <<>> THEN <<>>
    ELSE (IF Head(lines).kind = "token" THEN <<Head(lines).text>> ELSE <<>>)
            \o TokenTexts(Tail(lines))

IsToken(e) == e.type = "token"
IsWarning(e) == e.type = "warning"

\* the texts of the token events of ev[from..to]
RECURSIVE TextsBetween(_, _, _)
TextsBetween(ev, from, to) ==
    IF from > to THEN <<>>
    ELSE (IF IsToken(ev[from]) THEN <<ev[from].text>> ELSE <<>>)
            \o TextsBetween(ev, from + 1, to)

\* the connection was opened and the stream then broke after its lines
StreamBroke ==
    /\ fout.called = "stream_query_llm"
    /\ ~UnsupportedLlm(fin.llm_name)
    /\ fin.env.tgi_url
    /\ fin.env.hf_token
    /\ fin.env.post[1] = "ok"
    /\ fin.env.broken

NoErrorLine == \A i \in 1..Len(fin.env.lines) : fin.env.lines[i].kind # "error"

\* C8: when the stream breaks after k >= 1 tokens, the events are the k
\* tokens, then one warning, then the same k tokens again in order, and the
\* generator ends there: no exception, no second connection.  (An error
\* record the stream carried before it broke is forwarded where it came.)
C8_PartialReplay ==
    (StreamBroke /\ Len(TokenTexts(fin.env.lines)) >= 1) =>
        LET ev == fout.res.events
            toks == TokenTexts(fin.env.lines)
            k == Len(toks)
            w == Len(ev) - k
        IN  /\ w >= 1
            /\ IsWarning(ev[w])
            /\ \A i \in 1..Len(ev) : IsWarning(ev[i]) => i = w
            /\ TextsBetween(ev, 1, w - 1) = toks
            /\ NoErrorLine => w - 1 = k
            /\ \A i \in 1..k : IsToken(ev[w + i]) /\ ev[w + i].text = toks[i]
            /\ fout.res.raised = None
            /\ fout.res.posts = 1

\* the stream broke after the tokens t1, t2
C8_Witness ==
    /\ StreamBroke
    /\ fin.env.lines = <<TokenLine("t1"), TokenLine("t2")>>
    /\ Len(fout.res.events) = 5

(***************************************************************************)
(* Properties of the response cache (SpecCache)                            *)
(***************************************************************************)
\* C4: an entry cached under one raw query is returned for every raw query
\* with the same normalized text.
C4_NormalizedKey ==
    (/\ fout.called = "get_cached_response"
     /\ cache # <<>>
     /\ sanitize_query(fin.q1) = sanitize_query(fin.q2)) =>
        /\ "absent" \notin DOMAIN fout.entry
        /\ fout.entry.response = fin.response

(***************************************************************************)
(* Properties of save_query_to_db (SpecSave)                               *)
(***************************************************************************)
RowsWith(query_text) == {i \in 1..Len(rows) : rows[i].query_text = query_text}

\* C10: after two calls in sequence with the same query_text there is
\* exactly one row with that text, and it holds the first call's values.
C10_FirstSaveWins ==
    (tasks = <<>> /\ fin.first.query = fin.second.query) =>
        /\ Cardinality(RowsWith(fin.first.query)) = 1
        /\ \A i \in RowsWith(fin.first.query) :
              rows[i] = [query_text |-> fin.first.query,
                         response_text |-> fin.first.llm_response,
                         search_results |-> [json |-> fin.first.search_results],
                         llm_used |-> fin.first.llm_name]

\* both calls ended; they had the same query_text and different values
C10_Witness ==
    /\ tasks = <<>>
    /\ fin.first.query = fin.second.query
    /\ fin.first.llm_response # fin.second.llm_response
    /\ fin.first.search_results # fin.second.search_results
    /\ Len(rows) = 1

(***************************************************************************)
(* Properties of get_streaming_response (Spec)                             *)
(***************************************************************************)
Has(seq, x) == \E i \in 1..Len(seq) : seq[i] = x

\* the turn counter Redis holds for a session, 0 when it holds none
Count(session_id) ==
    IF session_id \in Live(chat_counts) THEN chat_counts[session_id].count ELSE 0

\* the same counter after the step
CountAfter(session_id) ==
    IF session_id \in DOMAIN chat_counts' /\ now' < chat_counts'[session_id].expire_at
    THEN chat_counts'[session_id].count
    ELSE 0

\* C1: a request whose turn count after the increment exceeds MAX_CHATS has
\* ended with one error event as its only event, and has done nothing but
\* the increment and the expiry: no cache lookup, search, model call, cache
\* write or save task.
C1_RateLimited ==
    \A r \in Slots :
        loc[r].chat_count > MAX_CHATS =>
            /\ pc[r] = "done"
            /\ Len(out[r]) = 1
            /\ DOMAIN out[r][1] = {"error"}
            /\ ops[r] = <<"incr", "expire">>

\* a session's second request, over the limit, while the cache holds an
\* entry for its query
C1_Witness ==
    \E r \in Slots :
        /\ loc[r].chat_count = MAX_CHATS + 1
        /\ generate_query_hash(args[r].query) \in Live(cache)
        /\ pc[r] = "done"

\* C2: a request's first step adds exactly one to its session's counter and
\* comes before its cache lookup; a counter changes at no other step except
\* by expiring, so it never decreases while its window lasts.
C2_CountFirst ==
    [][/\ \A r \in Slots :
             (pc[r] = "idle" /\ pc'[r] # "idle") =>
                 /\ CountAfter(args'[r].session_id) = Count(args'[r].session_id) + 1
                 /\ loc'[r].chat_count = CountAfter(args'[r].session_id)
                 /\ ~Has(ops'[r], "cache_get")
       /\ \A r \in Slots : Has(ops'[r], "cache_get") => ops'[r][1] = "incr"
       /\ \A s \in Sessions :
             CountAfter(s) # Count(s) =>
                 \/ \E r \in Slots : /\ pc[r] = "idle"
                                     /\ pc'[r] # "idle"
                                     /\ args'[r].session_id = s
                 \/ /\ CountAfter(s) = 0
                    /\ chat_counts[s].expire_at <= now'
      ]_vars

\* a request answered from the cache that took its session's first turn
C2_Witness ==
    \E r \in Slots :
        /\ pc[r] = "done"
        /\ ops[r] = <<"incr", "expire", "cache_get">>
        /\ loc[r].chat_count = 1
        /\ Count(args[r].session_id) = 1
        /\ issued = 2

\* the request in slot r ends by this step with the entry the cache held
\* for its query as its one event, having done nothing but the increment,
\* the expiry and the lookup
AnsweredFromCache(r) ==
    LET entry == cache[generate_query_hash(args'[r].query)].value.json
    IN  /\ out'[r] = <<[type |-> "full_response", content |-> entry.response,
                        search_results |-> entry.search_results,
                        llm_used |-> entry.llm_used]>>
        /\ ops'[r] = <<"incr", "expire", "cache_get">>
        /\ cache' = cache
        /\ tasks' = tasks
        /\ rows' = rows

EndsWithEntry(r) ==
    /\ pc[r] # "done"
    /\ pc'[r] = "done"
    /\ generate_query_hash(args'[r].query) \in Live(cache)

\* C3 as stated: every request that ends while the cache holds a live entry
\* for its query is answered from the cache.
C3_AnyRequest ==
    [][\A r \in Slots : EndsWithEntry(r) => AnsweredFromCache(r)]_vars

\* C3: a request within the turn limit that ends while the cache holds a
\* live entry for its query emits one full_response with the entry's
\* response, search_results and llm_used, and makes no search, model call,
\* cache write or save task.
C3_CachedAnswer ==
    [][\A r \in Slots :
          (EndsWithEntry(r) /\ loc'[r].chat_count <= MAX_CHATS) =>
              AnsweredFromCache(r)]_vars

\* the second request, in another session, answered from the cache
C3_Witness ==
    \E r \in Slots :
        /\ pc[r] = "done"
        /\ issued = 2
        /\ loc[r].chat_count <= MAX_CHATS
        /\ generate_query_hash(args[r].query) \in Live(cache)
        /\ Len(out[r]) = 1
        /\ out[r][1] = FullResponseEvent(json_loads(cache[generate_query_hash(args[r].query)].value))
        /\ ops[r] = <<"incr", "expire", "cache_get">>

\* the model stream of the request broke and its tokens were replayed
Interrupted(r) == Has(out[r], LlmResponseEvent(WarningEvent))

\* C9: a request whose model stream was interrupted writes no cache entry
\* and creates no save task.
C9_NoWriteAfterInterrupt ==
    \A r \in Slots :
        Interrupted(r) => /\ ~Has(ops[r], "cache_set")
                          /\ ~Has(ops[r], "create_task")

(***************************************************************************)
(* Properties of save_query_to_db in several instances (SpecInstances)     *)
(***************************************************************************)
\* C11: whatever the interleaving of the save tasks, the table never holds
\* two rows with the same query_text.
C11_OneRowPerQuery ==
    \A i, j \in 1..Len(rows) : rows[i].query_text = rows[j].query_text => i = j

(***************************************************************************)
(* Further properties of get_streaming_response (Spec)                     *)
(***************************************************************************)
EmptyQuery(query) == Falsy(validate_query(query))

\* C12: a request with an empty or whitespace-only query makes no cache
\* lookup, no search and no model call.
C12_EmptyQueryStopsFirst ==
    \A r \in Slots :
        (pc[r] # "idle" /\ EmptyQuery(args[r].query)) =>
            /\ ~Has(ops[r], "cache_get")
            /\ ~Has(ops[r], "search")
            /\ ~Has(ops[r], "stream_query_llm")
            /\ ~Has(ops[r], "query_llm")

\* C14: a request with search_enabled = false never calls the search
\* aggregator, and the results it caches are empty.
C14_SearchDisabled ==
    \A r \in Slots :
        (pc[r] # "idle" /\ ~args[r].search_enabled) =>
            /\ ~Has(ops[r], "search")
            /\ loc[r].search_results = <<>>

NumberOf(seq, x) == Cardinality({i \in 1..Len(seq) : seq[i] = x})

\* C15: one request calls the search aggregator at most once.
C15_SearchOnce ==
    \A r \in Slots : NumberOf(ops[r], "search") <= 1

\* an event that reports a failure of search or of the model in a shape of
\* its own
TypedFailure(e) ==
    /\ "type" \in DOMAIN e
    /\ \/ e.type = "error"
       \/ /\ e.type = "llm_response"
          /\ e.content.type \in {"error", "warning"}

\* C18: every failure event a request emits has the shape {"error": message}.
C18_UniformErrorShape ==
    \A r \in Slots : \A i \in 1..Len(out[r]) : ~TypedFailure(out[r][i])

\* C16: the result list given to stream_query_llm is the list of results the
\* request has emitted to the client.
C16_PromptFromResults ==
    \A r \in Slots :
        Has(ops[r], "stream_query_llm") => loc[r].prompt_results = Emitted(out[r])

IsSearchEvent(e) == "type" \in DOMAIN e /\ e.type \in {"search_results", "error"}
IsLlmResponse(e) == "type" \in DOMAIN e /\ e.type = "llm_response"
Before(seq, x, y) ==
    \A j \in 1..Len(seq) : seq[j] = y => \E i \in 1..(j - 1) : seq[i] = x

\* C13: in one request no search event follows an llm_response event, the
\* cache write comes after the model stream (whose events are then all
\* sent), and the save task is created after the cache write.
C13_StrictSequence ==
    \A r \in Slots :
        /\ \A i, j \in 1..Len(out[r]) :
              (IsLlmResponse(out[r][i]) /\ IsSearchEvent(out[r][j])) => j < i
        /\ Before(ops[r], "stream_query_llm", "cache_set")
        /\ Before(ops[r], "cache_set", "create_task")
        /\ Before(ops[r], "cache_get", "search")
        /\ Has(ops[r], "cache_set") => pc[r] = "done"

\* a finished request that sent search events and model tokens, wrote the
\* cache and created its save task
C13_Witness ==
    \E r \in Slots :
        /\ pc[r] = "done"
        /\ \E i \in 1..Len(out[r]) : IsSearchEvent(out[r][i])
        /\ \E i \in 1..Len(out[r]) : IsLlmResponse(out[r][i])
        /\ Has(ops[r], "create_task")

\* C19: an event with the key error is the last event of its request, the
\* request has ended, and it has written no cache entry and created no save
\* task.
C19_ErrorIsTerminal ==
    \A r \in Slots : \A i \in 1..Len(out[r]) :
        "error" \in DOMAIN out[r][i] =>
            /\ i = Len(out[r])
            /\ pc[r] = "done"
            /\ ~Has(ops[r], "cache_set")
            /\ ~Has(ops[r], "create_task")

\* a request that sent events, then failed to write the cache and ended
\* with an error event
C19_Witness ==
    \E r \in Slots :
        /\ pc[r] = "done"
        /\ Len(out[r]) >= 2
        /\ "error" \in DOMAIN out[r][Len(out[r])]
        /\ Has(ops[r], "cache_set_failed")

\* C17: no exception leaves get_streaming_response.
C17_NothingRaised ==
    \A r \in Slots : pc[r] # "raised"

\* C20: a request whose cache read failed does not end there: no exception
\* raised by the read leaves the request.
C20_ReadFailureFallsThrough ==
    \A r \in Slots :
        (Len(ops[r]) > 0 /\ ops[r][Len(ops[r])] = "cache_get") => pc[r] # "raised"

(***************************************************************************)
(* Concurrent turns: lines 27-33 of get_streaming_response run by several  *)
(* server processes on one Redis, one Redis command per step               *)
(***************************************************************************)
Clients == 1..MaxClients

\* a key that INCR has created has no expiry until EXPIRE sets one
NoExpiry == MaxTime + CHAT_COUNT_TTL + TickStep

\* an expiry step that writes back the count its request has read
TurnExpire_WritesBack(c) ==
    /\ pc[c] = "expire"
    /\ chat_counts' = Put(chat_counts, args[c].session_id,
                          [count |-> loc[c].chat_count,
                           expire_at |-> now + CHAT_COUNT_TTL])
    /\ pc' = [pc EXCEPT ![c] = "limit"]
    /\ ops' = [ops EXCEPT ![c] = Append(@, "expire")]
    /\ UNCHANGED <<now, cache, rows, tasks, issued, args, loc, out, fnVars>>

\* line 28: INCR
TurnIncr(c) ==
    /\ pc[c] = "idle"
    /\ LET session_id == args[c].session_id
           chat_count == Incr(session_id)
       IN  /\ chat_counts' = Put(chat_counts, session_id,
                                 [count |-> chat_count,
                                  expire_at |-> IF session_id \in Live(chat_counts)
                                                THEN chat_counts[session_id].expire_at
                                                ELSE NoExpiry])
           /\ loc' = [loc EXCEPT ![c] = [NoLocals EXCEPT !.chat_count = chat_count]]
    /\ pc' = [pc EXCEPT ![c] = "expire"]
    /\ ops' = [ops EXCEPT ![c] = <<"incr">>]
    /\ UNCHANGED <<now, cache, rows, tasks, issued, args, out, fnVars>>

\* line 29: EXPIRE leaves the value alone
TurnExpire(c) ==
    /\ pc[c] = "expire"
    /\ chat_counts' = Put(chat_counts, args[c].session_id,
                          [count |-> Count(args[c].session_id),
                           expire_at |-> now + CHAT_COUNT_TTL])
    /\ pc' = [pc EXCEPT ![c] = "limit"]
    /\ ops' = [ops EXCEPT ![c] = Append(@, "expire")]
    /\ UNCHANGED <<now, cache, rows, tasks, issued, args, loc, out, fnVars>>

\* lines 31-33
TurnLimit(c) ==
    /\ pc[c] = "limit"
    /\ IF ChatLimitReached(loc[c].chat_count)
       THEN /\ out' = [out EXCEPT ![c] =
                         <<ErrorEvent("Chat limit reached for this session.")>>]
            /\ pc' = [pc EXCEPT ![c] = ReturnAfterError]
       ELSE /\ out' = out
            /\ pc' = [pc EXCEPT ![c] = "cache_check"]
    /\ UNCHANGED <<storeVars, issued, args, loc, ops, fnVars>>

InitTurns ==
    /\ StoreInit
    /\ tasks = <<>>
    /\ issued = 0
    /\ pc = [c \in Clients |-> "idle"]
    /\ args \in [Clients -> {[NoArgs EXCEPT !.query = <<"a">>, !.session_id = s] :
                              s \in Sessions}]
    /\ loc = [c \in Clients |-> NoLocals]
    /\ out = [c \in Clients |-> <<>>]
    /\ ops = [c \in Clients |-> <<>>]
    /\ fin = NotCalled
    /\ fout = NotCalled
    /\ conn = NoConn
    /\ broker = NoBroker
    /\ gate = NoGate
    /\ queue = NoQueue

NextTurns ==
    \/ \E c \in Clients : TurnIncr(c)
    \/ \E c \in Clients : TurnExpire(c)
    \/ \E c \in Clients : TurnLimit(c)

SpecTurns == InitTurns /\ [][NextTurns]_vars

\* the requests of a session that have passed the increment
Started(session_id) ==
    {c \in Clients : args[c].session_id = session_id /\ pc[c] # "idle"}

\* C22: in every interleaving of the concurrent requests of a session, the
\* requests that have incremented observed the counts 1..k, each once, the
\* counter stands at k, and at most MAX_CHATS of them are accepted.
C22_AtomicIncrement ==
    \A s \in Sessions :
        /\ {loc[c].chat_count : c \in Started(s)} = 1..Cardinality(Started(s))
        /\ Count(s) = Cardinality(Started(s))
        /\ Cardinality({c \in Started(s) : pc[c] = "cache_check"}) <= MAX_CHATS

\* MaxClients requests of one session have finished the turn check; more
\* than one was refused
C22_Witness ==
    /\ \A c \in Clients : args[c].session_id = "s1" /\ pc[c] \in {"done", "cache_check"}
    /\ Cardinality({c \in Clients : pc[c] = "done"}) >= 2
    /\ \E c \in Clients : pc[c] = "cache_check"

(***************************************************************************)
(* Properties of the save task (SpecFault)                                 *)
(***************************************************************************)
\* C21: the request that creates a save task ends in that step, with the
\* task not yet started; it emits nothing afterwards; and a step of a save
\* task, failed or not, changes nothing of any request: no event is added.
C21_FireAndForget ==
    [][/\ Len(tasks') > Len(tasks) =>
             /\ tasks'[Len(tasks')].pc = "check"
             /\ \E r \in Slots : /\ pc'[r] = "done"
                                 /\ ops'[r][Len(ops'[r])] = "create_task"
                                 /\ out'[r] = out[r]
       /\ \A r \in Slots :
             Has(ops[r], "create_task") => (out'[r] = out[r] \/ pc'[r] = "idle")
       /\ (tasks' # tasks /\ Len(tasks') <= Len(tasks)) => UNCHANGED reqVars
      ]_vars

\* a save task has failed: the cache entry of its request is there, the
\* task is gone and the table is empty
C21_Witness ==
    /\ cache # <<>>
    /\ tasks = <<>>
    /\ rows = <<>>
    /\ \A r \in Slots : pc[r] = "idle"

(***************************************************************************)
(* The window of the turn counter (Spec)                                   *)
(***************************************************************************)
\* C23: the expiry of a turn counter is fixed by the first increment of its
\* window: no step moves the expiry time of a counter that is still live.
C23_FixedWindow ==
    [][\A s \in Sessions :
          (s \in Live(chat_counts) /\ s \in DOMAIN chat_counts')
              => chat_counts'[s].expire_at = chat_counts[s].expire_at]_vars

(***************************************************************************)
(* Unknown model names (Spec)                                              *)
(***************************************************************************)
UnknownModel(r) == args[r].llm_name \notin LLM_CONFIGS \cup {None}

EndsWithError(r) ==
    /\ pc[r] = "done"
    /\ out[r] # <<>>
    /\ "error" \in DOMAIN out[r][Len(out[r])]
    /\ \A i \in 1..Len(out[r]) : ~IsLlmResponse(out[r][i])
    /\ ~Has(ops[r], "cache_set")
    /\ ~Has(ops[r], "create_task")

\* every configuration and every outcome of the posts, with one token to read
ConnectEnvs ==
    [tgi_url : BOOLEAN, hf_token : BOOLEAN, post : [1..RETRIES -> PostOutcomes],
     lines : {<<TokenLine("t1")>>}, broken : BOOLEAN]

\* C24 as stated: every finished request that names an unknown model has
\* ended with a terminal error event, no llm_response event, no cache write
\* and no save task.
C24_UnknownModelAlwaysFails ==
    \A r \in Slots : (UnknownModel(r) /\ pc[r] = "done") => EndsWithError(r)

\* C24 (amended): a request naming an unknown model that reaches the model
\* client (turn limit not reached, no cached answer) ends there: the client
\* raises ValueError with no event and no post whatever the configuration
\* and the network would do, and the request ends with a terminal error
\* event, no llm_response event, no cache write and no save task.
C24_UnknownModelFailsFast ==
    \A r \in Slots :
        (UnknownModel(r) /\ Has(ops[r], "stream_query_llm")) =>
            /\ EndsWithError(r)
            /\ ops[r][Len(ops[r])] = "stream_query_llm"
            /\ \A env \in ConnectEnvs :
                  stream_query_llm(args[r].query, <<>>, args[r].llm_name, env)
                      = [events |-> <<>>, raised |-> "ValueError", posts |-> 0]

\* a request naming an unknown model has searched, sent the results and
\* then failed in the model client
C24_Witness ==
    \E r \in Slots :
        /\ UnknownModel(r)
        /\ Has(ops[r], "stream_query_llm")
        /\ pc[r] = "done"
        /\ \E i \in 1..Len(out[r]) : IsSearchEvent(out[r][i])

(***************************************************************************)
(* The model client's configuration and connection (SpecLLM)               *)
(***************************************************************************)
KnownModel == fin.llm_name \in LLM_CONFIGS \cup {None}

StreamCalled == fout.called = "stream_query_llm"

FirstSettled(post) ==
    IF \A i \in 1..RETRIES : post[i] = "request_error" THEN 0
    ELSE CHOOSE i \in 1..RETRIES :
             /\ post[i] # "request_error"
             /\ \A j \in 1..(i - 1) : post[j] = "request_error"

\* C26: with the endpoint and the token configured, a call makes at most
\* RETRIES posts, stops posting at the first response, and when every post
\* failed at network level or the response was not 2xx it ends, without
\* raising, with exactly one event of type error and no token event.
C26_RetryThenOneError ==
    (StreamCalled /\ KnownModel /\ fin.env.tgi_url /\ fin.env.hf_token) =>
        LET first == FirstSettled(fin.env.post)
        IN  /\ fout.res.posts <= RETRIES
            /\ first # 0 => fout.res.posts = first
            /\ (first = 0 \/ fin.env.post[first] = "status_error") =>
                  /\ fout.res.raised = None
                  /\ Len(fout.res.events) = 1
                  /\ fout.res.events[1].type = "error"

(***************************************************************************)
(* Forwarding of the model stream (Spec)                                   *)
(***************************************************************************)
\* C27: the step that runs the model stream appends to the request's output,
\* after what was already sent, one llm_response event per chunk that
\* stream_query_llm yielded, with that chunk as content and in the order
\* yielded; the only other event it can append is the final error event.
C27_ForwardedOneToOne ==
    [][\A r \in Slots :
          (pc[r] = "stream" /\ pc'[r] # "stream") =>
             \E env \in OrchStreamEnvs :
                LET ev == stream_query_llm(args[r].query, PromptResults(r),
                                           args[r].llm_name, env).events
                    new == SubSeq(out'[r], Len(out[r]) + 1, Len(out'[r]))
                IN  /\ SubSeq(out'[r], 1, Len(out[r])) = out[r]
                    /\ Len(new) >= Len(ev)
                    /\ \A i \in 1..Len(ev) :
                          new[i] = [type |-> "llm_response", content |-> ev[i]]
                    /\ \A i \in (Len(ev) + 1)..Len(new) :
                          /\ i = Len(new)
                          /\ "error" \in DOMAIN new[i]
      ]_vars

\* the model stream yielded the tokens t1 and t2 and the output holds them
\* as the last two events, in that order
C27_Witness ==
    \E r \in Slots :
        /\ pc[r] = "search_again"
        /\ Len(out[r]) >= 3
        /\ out[r][Len(out[r]) - 1] = LlmResponseEvent(TokenEvent("t1"))
        /\ out[r][Len(out[r])] = LlmResponseEvent(TokenEvent("t2"))

(***************************************************************************)
(* main.py: synchronous_chat_endpoint.  full_content is kept as the        *)
(* sequence of the strings that were concatenated.                         *)
(***************************************************************************)
\* chunk.get("content", ""): the content of an llm_response event is the
\* chunk of the model client, a dict; every other content is a string
ContentIsStr(chunk) == "content" \notin DOMAIN chunk \/ chunk.type # "llm_response"

\* lines 69-71: full_content += chunk.get("content", ""), which raises
\* TypeError when the content is not a string
RECURSIVE collect_response(_, _)
collect_response(chunks, full_content) ==
    IF chunks = <<>> THEN [full_content |-> full_content, raised |-> None]
    ELSE IF ~ContentIsStr(Head(chunks))
         THEN [full_content |-> full_content, raised |-> "TypeError"]
         ELSE collect_response(Tail(chunks),
                               IF "content" \in DOMAIN Head(chunks)
                               THEN Append(full_content, Head(chunks).content)
                               ELSE full_content)

\* lines 58-86, for the events the orchestrator yields and the exception it
\* ends with, if any
synchronous_chat_endpoint(chunks, raised) ==
    LET res == collect_response(chunks, <<>>)
    IN  IF res.raised # None \/ raised
        THEN [status_code |-> 500, content |-> <<>>]
        ELSE [status_code |-> 200, content |-> res.full_content]

\* the contents of the llm_response events, in order
RECURSIVE LlmResponseContents(_)
LlmResponseContents(events) ==
    IF events = <<>> THEN <<>>
    ELSE (IF IsLlmResponse(Head(events)) THEN <<Head(events).content>> ELSE <<>>)
            \o LlmResponseContents(Tail(events))

\* C28: for every finished request, the synchronous endpoint answers with
\* the contents of the request's llm_response events, in order, and with
\* nothing else.
C28_OnlyLlmResponseContent ==
    \A r \in Slots :
        pc[r] = "done" =>
            LET res == synchronous_chat_endpoint(out[r], FALSE)
            IN  /\ res.status_code = 200
                /\ res.content = LlmResponseContents(out[r])

(***************************************************************************)
(* main.py: websocket_endpoint.  One connection: the read loop and the     *)
(* heartbeat task are two tasks of one event loop, and a step runs one of  *)
(* them from one await to the next.  The clock `now` advances between the  *)
(* steps, never past a timer that is due.                                  *)
(***************************************************************************)
HEARTBEAT_INTERVAL == 30
RECEIVE_TIMEOUT == 60

HeartbeatEvent == [type |-> "heartbeat", session_id |-> "s1"]
ChunkEvent == [type |-> "llm_response"]

\* line 96 and line 110: the connection is accepted and the heartbeat task
\* created; the read loop waits for its first message
Accepted ==
    [loop |-> "receive", heartbeat |-> "sleeping", slept |-> 0, idle |-> 0,
     received |-> 0, last |-> "none", sent |-> <<>>, attempted |-> <<>>]

\* asyncio.sleep(30) of line 103 has run out
HeartbeatDue == conn.heartbeat = "sleeping" /\ conn.slept >= HEARTBEAT_INTERVAL

\* wait_for(..., timeout=60) of line 117 has run out
ReceiveDue == conn.loop = "receive" /\ conn.idle >= RECEIVE_TIMEOUT

Heartbeats(sent) == Cardinality({i \in 1..Len(sent) : sent[i] = HeartbeatEvent})
Chunks(sent) == Cardinality({i \in 1..Len(sent) : sent[i] = ChunkEvent})

SocketTick ==
    /\ conn.loop # "closed"
    /\ now < MaxSocketTime
    /\ ~HeartbeatDue
    /\ ~ReceiveDue
    /\ now' = now + SocketStep
    /\ conn' = [conn EXCEPT
                  !.slept = IF conn.heartbeat = "sleeping" THEN @ + SocketStep ELSE @,
                  !.idle = IF conn.loop = "receive" THEN @ + SocketStep ELSE @]
    /\ UNCHANGED <<chat_counts, cache, rows, tasks, reqVars, fin, fout, broker, gate, queue>>

\* a heartbeat that is sent by the read loop, between two messages
SendHeartbeat_Inline ==
    /\ HeartbeatDue
    /\ conn.loop = "receive"
    /\ conn' = [conn EXCEPT !.sent = Append(@, HeartbeatEvent), !.slept = 0]
    /\ UNCHANGED <<storeVars, reqVars, fin, fout, broker, gate, queue>>

\* lines 102-104: one round of the heartbeat task
SendHeartbeat ==
    /\ HeartbeatDue
    /\ conn' = [conn EXCEPT !.sent = Append(@, HeartbeatEvent), !.slept = 0]
    /\ UNCHANGED <<storeVars, reqVars, fin, fout, broker, gate, queue>>

\* lines 105-108: send_text raises and the heartbeat task ends
HeartbeatSendFails ==
    /\ HeartbeatDue
    /\ conn' = [conn EXCEPT !.heartbeat = "stopped"]
    /\ UNCHANGED <<storeVars, reqVars, fin, fout, broker, gate, queue>>

\* a read loop that takes the next request while the current one is served
ReceiveRequest_Eager ==
    /\ conn.loop \in {"receive", "stream"}
    /\ ~ReceiveDue
    /\ conn.received < MaxReceived
    /\ conn' = [conn EXCEPT !.loop = "stream", !.idle = 0, !.received = @ + 1,
                            !.last = "request"]
    /\ chat_counts' = Put(chat_counts, "s1",
                          [count |-> Incr("s1"), expire_at |-> now + CHAT_COUNT_TTL])
    /\ UNCHANGED <<now, cache, rows, tasks, reqVars, fin, fout, broker, gate, queue>>

\* lines 117-119 and 127: a valid request arrives and the orchestrator
\* starts; the first thing it does is to count the turn of the session
ReceiveRequest ==
    /\ conn.loop = "receive"
    /\ ~ReceiveDue
    /\ conn.received < MaxReceived
    /\ conn' = [conn EXCEPT !.loop = "stream", !.idle = 0, !.received = @ + 1,
                            !.last = "request"]
    /\ chat_counts' = Put(chat_counts, "s1",
                          [count |-> Incr("s1"), expire_at |-> now + CHAT_COUNT_TTL])
    /\ UNCHANGED <<now, cache, rows, tasks, reqVars, fin, fout, broker, gate, queue>>

\* a malformed message that is counted as a turn before it is refused
ReceiveInvalid_CountsTurn ==
    /\ conn.loop = "receive"
    /\ ~ReceiveDue
    /\ conn.received < MaxReceived
    /\ \E kind \in {"not_json", "invalid_request"} :
          conn' = [conn EXCEPT !.sent = Append(@, ErrorEvent("Invalid request data")),
                              !.idle = 0, !.received = @ + 1, !.last = kind]
    /\ chat_counts' = Put(chat_counts, "s1",
                          [count |-> Incr("s1"), expire_at |-> now + CHAT_COUNT_TTL])
    /\ UNCHANGED <<now, cache, rows, tasks, reqVars, fin, fout, broker, gate, queue>>

\* lines 120-123: the message is not JSON (JSONDecodeError) or is a JSON
\* object that is not a QueryRequest (a ValueError)
ReceiveInvalid ==
    /\ conn.loop = "receive"
    /\ ~ReceiveDue
    /\ conn.received < MaxReceived
    /\ \E kind \in {"not_json", "invalid_request"} :
          conn' = [conn EXCEPT !.sent = Append(@, ErrorEvent("Invalid request data")),
                              !.idle = 0, !.received = @ + 1, !.last = kind]
    /\ UNCHANGED <<storeVars, reqVars, fin, fout, broker, gate, queue>>

\* line 119 raises TypeError (the JSON value is not an object), which the
\* handler of line 120 does not catch: the read loop ends at line 141
ReceiveUnexpected ==
    /\ conn.loop = "receive"
    /\ ~ReceiveDue
    /\ conn.received < MaxReceived
    /\ conn' = [conn EXCEPT !.loop = "error_send", !.received = @ + 1,
                            !.last = "not_an_object"]
    /\ UNCHANGED <<storeVars, reqVars, fin, fout, broker, gate, queue>>

\* a timeout that leaves the heartbeat task alone
ReceiveTimeout_NoCancel ==
    /\ ReceiveDue
    /\ conn' = [conn EXCEPT !.loop = "closed"]
    /\ UNCHANGED <<storeVars, reqVars, fin, fout, broker, gate, queue>>

\* line 117 raises TimeoutError: lines 139-140, then the finally block of
\* lines 144-150 cancels the heartbeat task
ReceiveTimeout ==
    /\ ReceiveDue
    /\ conn' = [conn EXCEPT !.loop = "closed", !.heartbeat = "stopped"]
    /\ UNCHANGED <<storeVars, reqVars, fin, fout, broker, gate, queue>>

\* receive_text raises WebSocketDisconnect: lines 139-140 and the finally
\* block
ClientDisconnect ==
    /\ conn.loop = "receive"
    /\ conn' = [conn EXCEPT !.loop = "closed", !.heartbeat = "stopped"]
    /\ UNCHANGED <<storeVars, reqVars, fin, fout, broker, gate, queue>>

\* the client is gone while a request is served: send_text of line 134
\* raises, the handler of line 135 tries to send its error event (line 137),
\* which raises too.  When that exception is a WebSocketDisconnect the loop
\* ends at line 139; any other exception reaches line 141, where another
\* error event is tried (line 143).  attempted holds the events the server
\* tried to send after the failed chunk.
StreamDisconnect ==
    /\ conn.loop = "stream"
    /\ \E raised \in {"WebSocketDisconnect", "RuntimeError"} :
          conn' = [conn EXCEPT
                     !.loop = "closed", !.heartbeat = "stopped",
                     !.attempted =
                        <<ErrorEvent("An error occurred while processing your request")>>
                        \o (IF raised = "WebSocketDisconnect" THEN <<>>
                            ELSE <<ErrorEvent("An unexpected error occurred")>>)]
    /\ UNCHANGED <<storeVars, reqVars, fin, fout, broker, gate, queue>>

\* line 134: an event of the orchestrator is sent
StreamChunk ==
    /\ conn.loop = "stream"
    /\ Chunks(conn.sent) < MaxChunks
    /\ conn' = [conn EXCEPT !.sent = Append(@, ChunkEvent)]
    /\ UNCHANGED <<storeVars, reqVars, fin, fout, broker, gate, queue>>

\* the generator is exhausted: back to line 117
StreamEnds ==
    /\ conn.loop = "stream"
    /\ conn' = [conn EXCEPT !.loop = "receive", !.idle = 0]
    /\ UNCHANGED <<storeVars, reqVars, fin, fout, broker, gate, queue>>

\* lines 135-137: the generator raises
StreamRaises ==
    /\ conn.loop = "stream"
    /\ conn' = [conn EXCEPT
                  !.sent = Append(@, ErrorEvent("An error occurred while processing your request")),
                  !.loop = "receive", !.idle = 0]
    /\ UNCHANGED <<storeVars, reqVars, fin, fout, broker, gate, queue>>

\* lines 141-150: the error event is sent, then the heartbeat is cancelled
SendUnexpectedError ==
    /\ conn.loop = "error_send"
    /\ conn' = [conn EXCEPT !.sent = Append(@, ErrorEvent("An unexpected error occurred")),
                            !.loop = "closed", !.heartbeat = "stopped"]
    /\ UNCHANGED <<storeVars, reqVars, fin, fout, broker, gate, queue>>

InitSocket ==
    /\ StoreInit
    /\ tasks = <<>>
    /\ ReqInit
    /\ fin = NotCalled
    /\ fout = NotCalled
    /\ conn = Accepted
    /\ broker = NoBroker
    /\ gate = NoGate
    /\ queue = NoQueue

NextSocket ==
    \/ SocketTick
    \/ SendHeartbeat
    \/ HeartbeatSendFails
    \/ ReceiveRequest
    \/ ReceiveInvalid
    \/ ReceiveUnexpected
    \/ ReceiveTimeout
    \/ ClientDisconnect
    \/ StreamDisconnect
    \/ StreamChunk
    \/ StreamEnds
    \/ StreamRaises
    \/ SendUnexpectedError

SpecSocket == InitSocket /\ [][NextSocket]_vars

\* C29: while a request is being served and the heartbeat task lives, the
\* heartbeat step is enabled as soon as 30 s have passed since the last
\* heartbeat, and no more time than that passes without one.
C29_HeartbeatIndependent ==
    (conn.loop = "stream" /\ conn.heartbeat = "sleeping") =>
        /\ conn.slept < HEARTBEAT_INTERVAL + SocketStep
        /\ conn.slept >= HEARTBEAT_INTERVAL => ENABLED SendHeartbeat

\* the first request of the connection is still being served and two
\* heartbeats went out meanwhile
C29_Witness ==
    /\ conn.loop = "stream"
    /\ conn.received = 1
    /\ conn.sent # <<>>
    /\ conn.sent[1] = ChunkEvent
    /\ Heartbeats(conn.sent) >= 2

LoopEnded == conn.loop \in {"error_send", "closed"}

\* C30 as stated: the read loop ends once the wait for a message has lasted
\* 60 s, and no heartbeat is sent once the read loop has ended.
C30_NoHeartbeatAfterLoop ==
    [][/\ ReceiveDue => (now' = now /\ conn'.loop \in {"receive", "closed"})
       /\ LoopEnded => Heartbeats(conn'.sent) = Heartbeats(conn.sent)]_vars

\* C30 (amended): once the wait for a message has lasted 60 s no time
\* passes and no message is taken before the read loop ends; whenever the
\* handler has finished (timeout, disconnect or unexpected error) the
\* heartbeat task is stopped, and no heartbeat is sent from then on.  Before
\* that, while the error event of an unexpected error is being sent, the
\* heartbeat task is still alive.
C30_CancelledAtClose ==
    [][/\ ReceiveDue => (now' = now /\ conn'.loop \in {"receive", "closed"})
       /\ conn'.loop = "closed" => (conn'.heartbeat = "stopped" /\ ~HeartbeatDue')
       /\ conn.loop = "closed" => Heartbeats(conn'.sent) = Heartbeats(conn.sent)]_vars

\* the read loop has ended by timeout on a connection that has sent
\* heartbeats
C30_Witness ==
    /\ conn.loop = "closed"
    /\ conn.idle >= RECEIVE_TIMEOUT
    /\ Heartbeats(conn.sent) >= 1

(***************************************************************************)
(* mqttmain.py: AsyncMQTTServer.  A topic is the sequence of its levels,   *)
(* "chat/s1/query" is <<"chat", "s1", "query">>.  The server subscribes to *)
(* chat/#, so the broker delivers the server's own publications to it.     *)
(* The fields source and request of a publication, and origin of a         *)
(* delivery, are not part of the MQTT message: they record which inbound   *)
(* message caused it; taken and dropped count the deliveries that were     *)
(* taken from the subscription and those that the topic test let pass by.  *)
(***************************************************************************)
INITIAL_INTERVAL == 2
max_interval == 60

\* the session ids a payload can carry; the last one contains a "/"
BrokerSessions == {"s1", "s2/query"}

Levels(session_id) == IF session_id = "s2/query" THEN <<"s2", "query">> ELSE <<session_id>>

QueryTopic(session_id) == <<"chat">> \o Levels(session_id) \o <<"query">>
ResponseTopic(session_id) == <<"chat">> \o Levels(session_id) \o <<"response">>
ErrorTopic(session_id) == <<"chat">> \o Levels(session_id) \o <<"error">>

\* the topic clients publish their queries to
ClientTopics == {QueryTopic("s1")}

\* the payloads clients publish: a request, bytes that are not JSON, and
\* JSON that is not a QueryRequest
ClientPayloads ==
    {[kind |-> "request", session_id |-> s] : s \in BrokerSessions}
        \cup {[kind |-> "not_json"], [kind |-> "not_a_request"]}

\* QueryRequest(**payload) succeeds
IsRequest(payload) == "kind" \in DOMAIN payload /\ payload.kind = "request"

\* a test that takes every topic under chat/ for a query
IsQueryTopic_AnyChat(topic) == Len(topic) >= 2 /\ topic[1] = "chat"

\* line 114: topic.startswith("chat/") and topic.endswith("/query")
IsQueryTopic(topic) ==
    /\ Len(topic) >= 2
    /\ topic[1] = "chat"
    /\ topic[Len(topic)] = "query"

\* what get_streaming_response yields to the broker loop for an accepted
\* request
BrokerStreams == {<<ChunkEvent>>, <<ChunkEvent, ChunkEvent>>}

NoCurrent == [session_id |-> None, chunks |-> <<>>, source |-> <<>>]

\* lines 52-61 and 65: the server before its first connection attempt
Started0 ==
    [state |-> "connecting", connected |-> FALSE, health_file |-> FALSE,
     reconnect_interval |-> INITIAL_INTERVAL, inbox |-> <<>>, published |-> <<>>,
     pc |-> "idle", current |-> NoCurrent, taken |-> 0, dropped |-> 0,
     inbound |-> 0]

\* client.publish(topic, payload): the broker delivers it to the subscribers
\* of chat/#, the server among them
Publish(b, topic, payload, source) ==
    [b EXCEPT !.published = Append(@, [topic |-> topic, payload |-> payload,
                                       source |-> source, request |-> b.taken]),
              !.inbox = Append(@, [topic |-> topic, payload |-> payload,
                                   origin |-> "server"])]

\* a backoff that is not capped
NextInterval_Uncapped(reconnect_interval) == reconnect_interval * 2

\* line 100
NextInterval(reconnect_interval) ==
    IF reconnect_interval * 2 < max_interval THEN reconnect_interval * 2 ELSE max_interval

\* lines 73-88: the connection is made
ConnectOk ==
    /\ broker.state = "connecting"
    /\ broker' = [broker EXCEPT !.state = "connected", !.connected = TRUE,
                                !.health_file = TRUE,
                                !.reconnect_interval = INITIAL_INTERVAL]
    /\ UNCHANGED <<storeVars, reqVars, fin, fout, conn, gate, queue>>

\* lines 92-99, from a failed connection attempt: the server sleeps
ConnectFails ==
    /\ broker.state = "connecting"
    /\ broker' = [broker EXCEPT !.state = "waiting", !.connected = FALSE,
                                !.health_file = FALSE]
    /\ UNCHANGED <<storeVars, reqVars, fin, fout, conn, gate, queue>>

\* lines 92-99, from the message loop: the session is lost between two
\* messages; the deliveries not yet taken are lost with it
SessionLost ==
    /\ broker.state = "connected"
    /\ broker.pc = "idle"
    /\ broker' = [broker EXCEPT !.state = "waiting", !.connected = FALSE,
                                !.health_file = FALSE, !.inbox = <<>>]
    /\ UNCHANGED <<storeVars, reqVars, fin, fout, conn, gate, queue>>

\* lines 99-100 and 69-71: the sleep is over, the delay is doubled
SleepDone ==
    /\ broker.state = "waiting"
    /\ broker' = [broker EXCEPT !.state = "connecting",
                                !.reconnect_interval = NextInterval(@)]
    /\ UNCHANGED <<storeVars, reqVars, fin, fout, conn, gate, queue>>

\* a client publishes on a query topic
ClientPublishes ==
    /\ broker.state = "connected"
    /\ broker.inbound < MaxInbound
    /\ \E topic \in ClientTopics, payload \in ClientPayloads :
          broker' = [broker EXCEPT
                       !.inbox = Append(@, [topic |-> topic, payload |-> payload,
                                            origin |-> "client"]),
                       !.inbound = @ + 1]
    /\ UNCHANGED <<storeVars, reqVars, fin, fout, conn, gate, queue>>

\* lines 89-90 and 112-127: the next delivery is taken.  A delivery that is
\* not on a query topic is dropped; one that is not JSON is logged; one
\* that is not a QueryRequest is answered on chat/unknown/error; a request
\* starts the orchestrator, which counts the turn first.
TakeMessage ==
    /\ broker.state = "connected"
    /\ broker.pc = "idle"
    /\ broker.inbox # <<>>
    /\ LET msg == Head(broker.inbox)
           b == [broker EXCEPT !.inbox = Tail(@), !.taken = @ + 1]
       IN  IF ~IsQueryTopic(msg.topic)
           THEN /\ broker' = [b EXCEPT !.dropped = @ + 1]
                /\ UNCHANGED chat_counts
           ELSE IF msg.payload = [kind |-> "not_json"]
           THEN /\ broker' = b
                /\ UNCHANGED chat_counts
           ELSE IF ~IsRequest(msg.payload)
           THEN /\ broker' = Publish(b, ErrorTopic("unknown"),
                                     ErrorEvent("validation error"), msg.topic)
                /\ UNCHANGED chat_counts
           ELSE LET session_id == msg.payload.session_id
                    chat_count == Incr(session_id)
                IN  /\ chat_counts' = Put(chat_counts, session_id,
                                          [count |-> chat_count,
                                           expire_at |-> now + CHAT_COUNT_TTL])
                    /\ \E chunks \in (IF ChatLimitReached(chat_count)
                                      THEN {<<ErrorEvent("Chat limit reached for this session.")>>}
                                      ELSE BrokerStreams) :
                          broker' = [b EXCEPT !.pc = "publishing",
                                              !.current = [session_id |-> session_id,
                                                           chunks |-> chunks,
                                                           source |-> msg.topic]]
    /\ UNCHANGED <<now, cache, rows, tasks, reqVars, fin, fout, conn, gate, queue>>

\* lines 122-131: the next chunk is published
PublishChunk ==
    /\ broker.pc = "publishing"
    /\ broker.current.chunks # <<>>
    /\ broker' = [Publish(broker, ResponseTopic(broker.current.session_id),
                          Head(broker.current.chunks), broker.current.source)
                    EXCEPT !.current.chunks = Tail(@)]
    /\ UNCHANGED <<storeVars, reqVars, fin, fout, conn, gate, queue>>

\* the generator is exhausted: on_message returns
MessageDone ==
    /\ broker.pc = "publishing"
    /\ broker.current.chunks = <<>>
    /\ broker' = [broker EXCEPT !.pc = "idle", !.current = NoCurrent]
    /\ UNCHANGED <<storeVars, reqVars, fin, fout, conn, gate, queue>>

\* lines 134-140: the generator raises
OrchestratorRaises ==
    /\ broker.pc = "publishing"
    /\ broker.current.chunks # <<>>
    /\ broker' = [Publish(broker, ErrorTopic(broker.current.session_id),
                          ErrorEvent("exception"), broker.current.source)
                    EXCEPT !.pc = "idle", !.current = NoCurrent]
    /\ UNCHANGED <<storeVars, reqVars, fin, fout, conn, gate, queue>>

InitBroker ==
    /\ StoreInit
    /\ tasks = <<>>
    /\ ReqInit
    /\ fin = NotCalled
    /\ fout = NotCalled
    /\ conn = NoConn
    /\ broker = Started0
    /\ gate = NoGate
    /\ queue = NoQueue

NextBroker ==
    \/ ConnectOk
    \/ ConnectFails
    \/ SessionLost
    \/ SleepDone
    \/ ClientPublishes
    \/ TakeMessage
    \/ PublishChunk
    \/ MessageDone
    \/ OrchestratorRaises

SpecBroker == InitBroker /\ [][NextBroker]_vars

\* the session levels of an inbound topic chat/S/query
SessionOf(topic) == SubSeq(topic, 2, Len(topic) - 1)

\* C31: every message the server publishes for a query received on
\* chat/S/query goes to chat/S/response or to chat/S/error, for that S.
C31_SameSessionTopics ==
    \A i \in 1..Len(broker.published) :
        LET p == broker.published[i]
        IN  p.topic \in {<<"chat">> \o SessionOf(p.source) \o <<"response">>,
                         <<"chat">> \o SessionOf(p.source) \o <<"error">>}

\* C38: no message the server publishes is on a topic that ends with the
\* level query, whatever the session id; and the step that takes one of the
\* server's own publications from the subscription changes no turn counter,
\* publishes nothing and starts nothing.
C38_NoFeedback ==
    [][/\ \A i \in 1..Len(broker'.published) :
             LET topic == broker'.published[i].topic
             IN  topic[Len(topic)] # "query"
       /\ (/\ broker'.taken > broker.taken
           /\ Head(broker.inbox).origin = "server")
          => /\ chat_counts' = chat_counts
             /\ broker'.published = broker.published
             /\ broker'.pc = "idle"
      ]_vars

\* a request with the session id s2/query was answered on
\* chat/s2/query/response, and the server has taken and dropped its own
\* publications
C38_Witness ==
    /\ broker.state = "connected"
    /\ broker.dropped >= 2
    /\ broker.inbox = <<>>
    /\ \E i \in 1..Len(broker.published) :
          broker.published[i].topic = <<"chat", "s2", "query", "response">>

\* C39: the reconnect delay is always one of 2..60; it changes only when a
\* connection succeeds, which sets it to 2, and when a wait ends, which
\* doubles it up to 60; in a wait the server is not connected and the
\* health file is absent.
C39_BackoffBounded ==
    [][/\ broker.reconnect_interval \in 2..60
       /\ broker'.reconnect_interval \in 2..60
       /\ broker'.state = "waiting" => (~broker'.connected /\ ~broker'.health_file)
       /\ broker'.state = "connected" /\ broker.state # "connected"
             => broker'.reconnect_interval = 2
       /\ broker.state = "waiting" /\ broker'.state # "waiting"
             => broker'.reconnect_interval =
                   (IF broker.reconnect_interval * 2 <= 60
                    THEN broker.reconnect_interval * 2 ELSE 60)
       /\ broker'.reconnect_interval # broker.reconnect_interval
             => \/ broker'.state = "connected" /\ broker.state # "connected"
                \/ broker.state = "waiting" /\ broker'.state # "waiting"
      ]_vars

\* the server waits to reconnect with the delay at its cap
C39_Witness ==
    /\ broker.state = "waiting"
    /\ broker.reconnect_interval = 60
    /\ ~broker.connected

(***************************************************************************)
(* Disconnects and malformed messages on the socket (SpecSocket)           *)
(***************************************************************************)
\* a message has been received in this step
Received == conn'.received > conn.received

\* the step has sent the one event {"error": "Invalid request data"}, has
\* left the turn counters, the cache, the table and the save tasks alone
\* and has left the read loop waiting for the next message
RefusedAndOpen ==
    /\ conn'.sent = Append(conn.sent, ErrorEvent("Invalid request data"))
    /\ UNCHANGED <<chat_counts, cache, rows, tasks, queue>>
    /\ conn'.loop = "receive"
    /\ conn'.idle = 0
    /\ conn'.heartbeat = conn.heartbeat

\* C40 as stated: every message that is not a valid request, a JSON value
\* that is not an object included, is refused with that one event and the
\* connection stays open.
C40_MalformedRefused ==
    [][(Received /\ conn'.last # "request") => RefusedAndOpen]_vars

\* C40 (amended): a message that is not JSON, or that is a JSON object
\* failing the validation of QueryRequest, is refused with that one event,
\* changes no store and leaves the connection open.  (A JSON value that is
\* not an object ends the read loop.)
C40_InvalidRefused ==
    [][(Received /\ conn'.last \in {"not_json", "invalid_request"})
          => RefusedAndOpen]_vars

\* after a request that counted a turn, a message that fails validation
\* was refused: the counter is as the request left it and the loop waits
C40_Witness ==
    /\ conn.last = "invalid_request"
    /\ conn.received = 2
    /\ conn.loop = "receive"
    /\ Count("s1") = 1
    /\ conn.sent # <<>>
    /\ conn.sent[Len(conn.sent)] = ErrorEvent("Invalid request data")

\* C32: once the client has disconnected during a request, the server tries
\* to send nothing more on the connection.
C32_NoOutputAfterDisconnect == conn.attempted = <<>>

(***************************************************************************)
(* api/search_api.py: save_query_to_db behind Semaphore(10)                *)
(*                                                                         *)
(* The save tasks are counted by where they stand: created and waiting at  *)
(* line 114, inside the gate at the existence check, inside the gate       *)
(* before the commit, ended.  The tasks all save the same query.  The two  *)
(* database calls are steps of their own, between which other tasks may    *)
(* run: the calls of the code do not await, so the behaviours of the code  *)
(* are among those of the model.                                           *)
(***************************************************************************)
DB_SEMAPHORE == 10

GateTask == Task(<<"a">>, "r1", <<>>, "gemma_flash_2.0")

\* a semaphore that is never locked
Locked_Never(g) == FALSE

\* Semaphore.locked(): no permit is left
Locked(g) == g.value = 0

\* the exit of "async with": the permit is given back and the task ends
Release(g) == [g EXCEPT !.value = @ + 1, !.done = @ + 1]

Created == gate.waiting + gate.checking + gate.inserting + gate.done

Entered == gate.checking + gate.inserting + gate.done

InFlight == gate.checking + gate.inserting

\* line 106: create_task(self.save_query_to_db(...))
GateCreate ==
    /\ Created < MaxSaves
    /\ gate' = [gate EXCEPT !.waiting = @ + 1]
    /\ UNCHANGED <<storeVars, reqVars, fin, fout, conn, broker, queue>>

\* line 114: the oldest waiting task takes a permit
GateEnter ==
    /\ gate.waiting > 0
    /\ ~Locked(gate)
    /\ gate' = [gate EXCEPT !.value = @ - 1, !.waiting = @ - 1, !.checking = @ + 1]
    /\ UNCHANGED <<storeVars, reqVars, fin, fout, conn, broker, queue>>

\* lines 116-119: the existence check; a task that finds the row returns
GateCheck ==
    /\ gate.checking > 0
    /\ gate' = IF ExistingQuery(GateTask.query)
               THEN Release([gate EXCEPT !.checking = @ - 1])
               ELSE [gate EXCEPT !.checking = @ - 1, !.inserting = @ + 1]
    /\ UNCHANGED <<storeVars, reqVars, fin, fout, conn, broker, queue>>

\* lines 116 and 129-131: db.query raises; the handler rolls back
GateCheckFails ==
    /\ gate.checking > 0
    /\ gate' = Release([gate EXCEPT !.checking = @ - 1, !.rolled_back = @ + 1])
    /\ UNCHANGED <<storeVars, reqVars, fin, fout, conn, broker, queue>>

\* lines 121-128: add, commit, refresh
GateInsert ==
    /\ gate.inserting > 0
    /\ rows' = Append(rows, UserQuery(GateTask))
    /\ gate' = Release([gate EXCEPT !.inserting = @ - 1])
    /\ UNCHANGED <<now, chat_counts, cache, tasks, reqVars, fin, fout, conn, broker, queue>>

\* lines 127 and 129-131: db.commit raises; the handler rolls back
GateInsertFails ==
    /\ gate.inserting > 0
    /\ gate' = Release([gate EXCEPT !.inserting = @ - 1, !.rolled_back = @ + 1])
    /\ UNCHANGED <<storeVars, reqVars, fin, fout, conn, broker, queue>>

InitGate ==
    /\ StoreInit
    /\ tasks = <<>>
    /\ ReqInit
    /\ conn = NoConn
    /\ broker = NoBroker
    /\ fin = [of |-> "none"]
    /\ fout = NotCalled
    /\ gate = [value |-> DB_SEMAPHORE, waiting |-> 0, checking |-> 0,
               inserting |-> 0, done |-> 0, rolled_back |-> 0]
    /\ queue = NoQueue

NextGate ==
    \/ GateCreate
    \/ GateEnter
    \/ GateCheck
    \/ GateCheckFails
    \/ GateInsert
    \/ GateInsertFails

SpecGate == InitGate /\ [][NextGate]_vars

\* the event loop runs every task that is ready, and a database call
\* returns or raises
SpecGateFair ==
    /\ SpecGate
    /\ WF_vars(GateEnter)
    /\ WF_vars(GateCheck \/ GateCheckFails)
    /\ WF_vars(GateInsert \/ GateInsertFails)

(***************************************************************************)
(* The gate of the transcript writes                                       *)
(***************************************************************************)
InFlightBounded == InFlight <= DB_SEMAPHORE /\ InFlight + gate.value = DB_SEMAPHORE

\* C33: at most 10 save tasks are between the existence check and the
\* commit or rollback, and a task that waits on the gate enters it: the
\* semaphore wakes its waiters in the order they came, so the n-th task
\* created is the n-th to enter.
C33_GateBounded ==
    /\ []InFlightBounded
    /\ \A n \in 1..MaxSaves : (Created >= n) ~> (Entered >= n)

\* the gate is full, a task waits on it, and tasks have passed before
C33_Witness ==
    /\ InFlight = DB_SEMAPHORE
    /\ gate.waiting > 0
    /\ gate.done > 0
    /\ gate.inserting > 0

(***************************************************************************)
(* core/utils.py: sanitize_query on its own                                *)
(*                                                                         *)
(* The texts are over the characters of Chars and U+2102 (DOUBLE-STRUCK    *)
(* CAPITAL C), one of the letters for which str.isupper() is true and      *)
(* that str.lower() leaves as it is; Lower leaves it as it is.             *)
(***************************************************************************)
UtilsChars == Chars \cup {"U+2102"}

InitUtils ==
    /\ StoreInit
    /\ tasks = <<>>
    /\ ReqInit
    /\ conn = NoConn
    /\ broker = NoBroker
    /\ gate = NoGate
    /\ queue = NoQueue
    /\ fin \in [query : SeqsUpTo(UtilsChars, MaxQueryLen)]
    /\ fout = NotCalled

CallSanitizeQuery ==
    /\ fout = NotCalled
    /\ fout' = [called |-> "sanitize_query", value |-> sanitize_query(fin.query)]
    /\ UNCHANGED <<storeVars, reqVars, fin, conn, broker, gate, queue>>

NextUtils == CallSanitizeQuery

SpecUtils == InitUtils /\ [][NextUtils]_vars

(***************************************************************************)
(* The shape of a sanitized query                                          *)
(***************************************************************************)
\* str.isupper() of one character
IsUpper(c) == c \in {"A", "U+2102"}

Trimmed(s) == s = <<>> \/ (~IsSpace(s[1]) /\ ~IsSpace(s[Len(s)]))

Collapsed(s) == \A i \in 1..(Len(s) - 1) : ~(IsSpace(s[i]) /\ IsSpace(s[i + 1]))

Blank(s) == \A i \in 1..Len(s) : IsSpace(s[i])

Sanitized == fout.called = "sanitize_query"

\* C34 as stated: the output of sanitize_query never starts or ends with
\* whitespace, has no two adjacent whitespace characters and no uppercase
\* letter, and is empty for an empty or whitespace-only input.
C34_NoUppercase ==
    Sanitized =>
        /\ Trimmed(fout.value)
        /\ Collapsed(fout.value)
        /\ \A i \in 1..Len(fout.value) : ~IsUpper(fout.value[i])
        /\ Blank(fin.query) => fout.value = <<>>

\* C34 (amended): the output of sanitize_query never starts or ends with
\* whitespace, has no two adjacent whitespace characters and no letter that
\* has a lowercase form other than itself, its whitespace is the space, and
\* it is empty for an empty or whitespace-only input.
C34_Lowercased ==
    Sanitized =>
        /\ Trimmed(fout.value)
        /\ Collapsed(fout.value)
        /\ \A i \in 1..Len(fout.value) :
              /\ Lower(fout.value[i]) = fout.value[i]
              /\ IsSpace(fout.value[i]) => fout.value[i] = " "
        /\ Blank(fin.query) => fout.value = <<>>

\* an uppercase letter, a run of a tab and a space, and a lowercase letter
\* became two lowercase letters around one space
C34_Witness ==
    /\ Sanitized
    /\ fin.query = <<"A", "\t", " ", "a">>
    /\ fout.value = <<"a", " ", "a">>

(***************************************************************************)
(* core/caching.py: the query queue                                        *)
(*                                                                         *)
(* queue.list is the Redis list "query_queue", its head first.  The other  *)
(* fields record the calls: the queries given to enqueue_query, the        *)
(* results of the dequeue_query calls that took an entry off the list,     *)
(* and the latest call with its result.                                    *)
(***************************************************************************)
QueueQueries == {<<>>, <<"a">>, <<"b">>}

\* redis-py sends a str as its UTF-8 bytes
Encode(q) == [bytes |-> q]

\* bytes.decode('utf-8')
Decode(b) == b.bytes

\* LPOP: the head of the list, None when the key holds nothing
lpop(list) == IF list = <<>> THEN NoText ELSE Text(Head(list))

\* "if query": None and b"" are false
Truthy(popped) == ~popped.is_none /\ popped.value.bytes # <<>>

\* lines 30-32
EnqueueQuery ==
    /\ Len(queue.enqueued) < MaxEnqueued
    /\ \E query \in QueueQueries :
          queue' = [queue EXCEPT !.list = Append(@, Encode(query)),
                                 !.enqueued = Append(@, Text(query)),
                                 !.last = [call |-> "enqueue_query"]]
    /\ UNCHANGED <<storeVars, reqVars, fin, fout, conn, broker, gate>>

\* lines 34-37
DequeueQuery ==
    LET query == lpop(queue.list)
        result == IF Truthy(query) THEN Text(Decode(query.value)) ELSE NoText
    IN  /\ queue' = [queue EXCEPT
                        !.list = IF @ = <<>> THEN @ ELSE Tail(@),
                        !.returned = IF queue.list = <<>> THEN @ ELSE Append(@, result),
                        !.last = [call |-> "dequeue_query",
                                  on_empty |-> queue.list = <<>>,
                                  result |-> result]]
        /\ UNCHANGED <<storeVars, reqVars, fin, fout, conn, broker, gate>>

InitQueue ==
    /\ StoreInit
    /\ tasks = <<>>
    /\ ReqInit
    /\ conn = NoConn
    /\ broker = NoBroker
    /\ gate = NoGate
    /\ fin = [of |-> "none"]
    /\ fout = NotCalled
    /\ queue = [list |-> <<>>, enqueued |-> <<>>, returned |-> <<>>,
                last |-> [call |-> "none"]]

NextQueue == EnqueueQuery \/ DequeueQuery

SpecQueue == InitQueue /\ [][NextQueue]_vars

(***************************************************************************)
(* The order of the query queue                                            *)
(***************************************************************************)
Waiting == [i \in 1..Len(queue.list) |-> Text(Decode(queue.list[i]))]

DequeuedOnEmpty == queue.last.call = "dequeue_query" /\ queue.last.on_empty

\* C35: the queries dequeue_query has returned, followed by those still on
\* the list, are the queries given to enqueue_query in the order they were
\* given, so each is returned once and the oldest first; a dequeue_query on
\* an empty queue returns None and leaves the queue empty.
C35_FirstInFirstOut ==
    /\ queue.returned \o Waiting = queue.enqueued
    /\ DequeuedOnEmpty => (queue.last.result = NoText /\ queue.list = <<>>)

(***************************************************************************)
(* What the cache entries hold                                             *)
(***************************************************************************)
\* C36: no cache entry holds the placeholder that query_llm returns when
\* the model call fails, so no later request is served the placeholder as
\* a full_response.
C36_NoPlaceholderCached ==
    \A query_hash \in DOMAIN cache :
        json_loads(cache[query_hash].value).response # ErrorPlaceholder

(***************************************************************************)
(* The two message loops: the read loop of a socket connection (main.py)   *)
(* and the message loop of the broker server (mqttmain.py).  They are two  *)
(* programs; a behaviour is one of a socket connection or one of a broker  *)
(* server.                                                                 *)
(***************************************************************************)
InitLoops == InitSocket \/ InitBroker

NextLoops ==
    \/ (conn # NoConn /\ NextSocket)
    \/ (broker # NoBroker /\ NextBroker)

SpecLoops == InitLoops /\ [][NextLoops]_vars

(***************************************************************************)
(* One request at a time                                                   *)
(***************************************************************************)
\* the read loop takes a message only between two requests, and an event
\* of a request is sent only while that request is the one being served
SocketOneAtATime ==
    /\ conn'.received > conn.received => conn.loop = "receive"
    /\ Chunks(conn'.sent) > Chunks(conn.sent) =>
          (conn.loop = "stream" /\ conn'.received = conn.received)

\* the message loop takes a delivery only when on_message has returned, and
\* a publication belongs to the delivery taken last
BrokerOneAtATime ==
    /\ broker'.taken > broker.taken => broker.pc = "idle"
    /\ Len(broker'.published) > Len(broker.published) =>
          broker'.published[Len(broker'.published)].request = broker'.taken

\* C37: on the socket read loop and on the broker loop the next inbound
\* message is not taken until the current request has sent its last event,
\* so the events of two requests never interleave.
C37_OneAtATime ==
    [][/\ conn # NoConn => SocketOneAtATime
       /\ broker # NoBroker => BrokerOneAtATime]_vars

\* the broker server publishes the events of a second request after all
\* those of a first, while other deliveries wait to be taken
C37_Witness ==
    /\ broker # NoBroker
    /\ broker.pc = "publishing"
    /\ broker.inbox # <<>>
    /\ Len(broker.published) >= 2
    /\ broker.published[1].request < broker.published[Len(broker.published)].request
    /\ broker.published[Len(broker.published)].request = broker.taken
    /\ \A i, j \in 1..Len(broker.published) :
          i < j => broker.published[i].request <= broker.published[j].request

====
